---- MODULE Spec2Model ----
(***************************************************************************)
(* A model of the attachment-citation extractors of cover-sheet/lib,       *)
(* extractEB1 (eb1-extractor.ts) and extractEB2 (eb2-extractor.ts), of the *)
(* older extractEB2 of "cover sheet"/lib/eb2-extractor.ts, of the POST     *)
(* handler of cover-sheet/app/api/extract/route.ts that calls them, and of *)
(* the upload page Home (the second half of "cover sheet"/lib/             *)
(* eb2-extractor.ts) that sends the requests.                              *)
(*                                                                         *)
(* Text is modelled as a sequence of symbols.  A symbol is a string: one   *)
(* character of punctuation or whitespace, one digit, or one whole word    *)
(* (a keyword of the extractors' patterns such as "Attachment", or an      *)
(* ordinary word).  The concrete text is the concatenation of the symbols' *)
(* spellings; "ndash" and "mdash" spell the one-character en and em dash.  *)
(* Every regular expression of the source is translated literal by literal *)
(* into a pattern tree and run by a backtracking matcher with JavaScript's *)
(* priorities (greedy and lazy quantifiers, alternation left to right).    *)
(***************************************************************************)
EXTENDS Integers, Sequences, FiniteSets, TLC

(***************************************************************************)
(* Symbol classes.                                                         *)
(***************************************************************************)
Space == {" ", "TAB"}
Digit == {"0", "1", "2", "3", "4", "5", "6", "7", "8", "9"}
Punct == {"(", ")", ",", ".", ":", ";", "-", "ndash", "mdash", "'", "|", "/"}
UrlScheme == {"http://", "https://"}

\* Symbols whose spelling does not start / end with a word character (\w).
NonWordFirst == Space \cup Punct
NonWordLast == Space \cup Punct \cup UrlScheme

\* Symbols of an upper-cased text whose spelling does not start / end with a
\* capital letter ([^A-Z]): every word of an upper-cased text is in capitals.
NonCapitalFirst == Space \cup Punct \cup Digit
NonCapitalLast == Space \cup Punct \cup Digit \cup {"HTTP://", "HTTPS://"}

\* The number of characters a symbol spells.
SymLen(sym) == IF sym \in {"ndash", "mdash", "TAB"} THEN 1 ELSE Len(sym)

RECURSIVE CharLen(_)
\* String.prototype.length of the text a symbol sequence spells.
CharLen(s) == IF s = <<>> THEN 0 ELSE SymLen(Head(s)) + CharLen(Tail(s))

\* String.prototype.toUpperCase on one symbol: the words of the model that
\* are not upper case already, each with its upper-case spelling.
UpperPairs ==
  { <<"See", "SEE">>, <<"Attachment", "ATTACHMENT">>, <<"available", "AVAILABLE">>,
    <<"at", "AT">>, <<"pages", "PAGES">>, <<"Pages", "PAGES">>, <<"page", "PAGE">>,
    <<"pp", "PP">>, <<"is", "IS">>, <<"Conclusion", "CONCLUSION">>,
    <<"Evidence", "EVIDENCE">>, <<"of", "OF">>, <<"my", "MY">>, <<"me", "ME">>,
    <<"that", "THAT">>, <<"about", "ABOUT">>, <<"have", "HAVE">>,
    <<"Intro", "INTRO">>, <<"Introduction", "INTRODUCTION">>, <<"Ability", "ABILITY">>, <<"Merits", "MERITS">>,
    <<"Awards", "AWARDS">>, <<"Role", "ROLE">>, <<"Short", "SHORT">>,
    <<"desc", "DESC">>, <<"Longer", "LONGER">>, <<"Letter", "LETTER">>,
    <<"Press", "PRESS">>, <<"Narrative", "NARRATIVE">>, <<"http://", "HTTP://">>,
    <<"https://", "HTTPS://">>, <<"x", "X">>, <<"y", "Y">>, <<"i", "I">>,
    <<"v", "V">>, <<"Diploma", "DIPLOMA">>, <<"from", "FROM">>, <<"State", "STATE">>,
    <<"University", "UNIVERSITY">>, <<"example", "EXAMPLE">>, <<"edu", "EDU">>,
    <<"diploma", "DIPLOMA">> }

ToUpper(sym) ==
  IF \E p \in UpperPairs : p[1] = sym
    THEN (CHOOSE p \in UpperPairs : p[1] = sym)[2]
    ELSE sym

\* toUpperCase on a text.
UpperCase(s) == [i \in 1..Len(s) |-> ToUpper(s[i])]

(***************************************************************************)
(* Pattern trees.  A starred pattern is always a one-symbol class, as in   *)
(* every quantified atom of the source's expressions.                      *)
(***************************************************************************)
Cls(S) == [t |-> "cls", set |-> S, neg |-> FALSE]
NotCls(S) == [t |-> "cls", set |-> S, neg |-> TRUE]
Lit(x) == Cls({x})
AnyChar == NotCls({"NEWLINE"})
Ws == Cls(Space)
NonWs == NotCls(Space)
Dig == Cls(Digit)
Cat(rs) == [t |-> "cat", rs |-> rs]
Alt(a, b) == [t |-> "alt", a |-> a, b |-> b]
Empty == Cat(<<>>)
Opt(r) == Alt(r, Empty)
Star(r) == [t |-> "star", r |-> r]
Plus(r) == Cat(<<r, Star(r)>>)
LazyStar(r) == [t |-> "lstar", r |-> r]
LazyPlus(r) == Cat(<<r, LazyStar(r)>>)
Cap(n, r) == [t |-> "cap", n |-> n, r |-> r]
Bol == [t |-> "bol"]
Eol == [t |-> "eol"]
WordB == [t |-> "wordb"]

NoCaps == <<<<0, 0>>, <<0, 0>>, <<0, 0>>>>
NoMatch == [ok |-> FALSE, b |-> 0, e |-> 0, c |-> NoCaps]

InCls(sym, re, ci) ==
  LET in == IF ci THEN \E x \in re.set : ToUpper(x) = ToUpper(sym)
                  ELSE sym \in re.set
  IN  IF re.neg THEN ~in ELSE in

\* \b at position i (between s[i-1] and s[i]).
AtWordBoundary(s, i) ==
  LET before == i > 1 /\ s[i - 1] \notin NonWordLast
      after == i <= Len(s) /\ s[i] \notin NonWordFirst
  IN  before # after

\* The least and the greatest element of a non-empty set of integers.
Min(S) == CHOOSE x \in S : \A y \in S : x <= y
Max(S) == CHOOSE x \in S : \A y \in S : x >= y

RECURSIVE Flat(_)
RECURSIVE FlatAll(_)
\* A pattern tree as a sequence of atoms: concatenations are flattened and a
\* capture group becomes an "open" and a "close" mark around its pattern.
Flat(re) ==
  CASE re.t = "cat" -> FlatAll(re.rs)
    [] re.t = "alt" -> <<[t |-> "alt", a |-> Flat(re.a), b |-> Flat(re.b)]>>
    [] re.t = "cap" ->
         <<[t |-> "open", n |-> re.n]>> \o Flat(re.r) \o <<[t |-> "close", n |-> re.n]>>
    [] OTHER -> <<re>>
FlatAll(rs) == IF rs = <<>> THEN <<>> ELSE Flat(Head(rs)) \o FlatAll(Tail(rs))

\* The atoms that match in one way at most: a class, an assertion, a mark.
Det == {"cls", "bol", "eol", "wordb", "open", "close"}

\* The number of leading atoms of `stack` that are in Det.
LeadingDet(stack) ==
  LET other == {k \in 1..Len(stack) : stack[k].t \notin Det}
  IN  IF other = {} THEN Len(stack) ELSE Min(other) - 1

\* The position reached before atom k of `stack` when its leading atoms are
\* matched from position i: every class before atom k has taken one symbol.
PosAt(stack, i, k) == i + Cardinality({j \in 1..(k - 1) : stack[j].t = "cls"})

AtomOk(a, s, p, ci) ==
  CASE a.t = "cls" -> p <= Len(s) /\ InCls(s[p], a, ci)
    [] a.t = "bol" -> p = 1
    [] a.t = "eol" -> p = Len(s) + 1
    [] a.t = "wordb" -> AtWordBoundary(s, p)
    [] OTHER -> TRUE

\* The leading Det atoms of `stack` match s from position i.
DetOk(stack, s, i, ci) ==
  \A k \in 1..LeadingDet(stack) : AtomOk(stack[k], s, PosAt(stack, i, k), ci)

\* The position of the last mark (kind, g) among the first n atoms of `stack`
\* matched from position i; old when there is none.
MarkPos(stack, i, n, kind, g, old) ==
  LET marks == {k \in 1..n : stack[k].t = kind /\ stack[k].n = g}
  IN  IF marks = {} THEN old ELSE PosAt(stack, i, Max(marks))

\* Capture group g, from old, after the marks among the first n atoms.
GroupAfter(stack, i, n, g, old) ==
  <<MarkPos(stack, i, n, "open", g, old[1]), MarkPos(stack, i, n, "close", g, old[2])>>

\* The captures c after the marks among the leading Det atoms of `stack`.
DetCaps(stack, i, n, c) ==
  <<GroupAfter(stack, i, n, 1, c[1]), GroupAfter(stack, i, n, 2, c[2]),
    GroupAfter(stack, i, n, 3, c[3])>>

\* The length of the longest run of symbols of class cls in s from position i.
Run(s, i, cls, ci) ==
  LET bad == {j \in i..Len(s) : ~InCls(s[j], cls, ci)}
  IN  IF bad = {} THEN Len(s) - i + 1 ELSE Min(bad) - i

\* Of the matches byLen[k] of the rest after a quantified class has taken k
\* symbols, the one a backtracking search finds first: the longest k for a
\* greedy quantifier, the shortest for a lazy one.
FirstFound(t, byLen, lens) ==
  IF lens = {} THEN NoMatch ELSE byLen[IF t = "star" THEN Max(lens) ELSE Min(lens)]

RECURSIVE MatchAt(_, _, _, _, _)
RECURSIVE MatchRest(_, _, _, _, _)
RECURSIVE MatchRun(_, _, _, _, _, _, _)
\* The backtracking matcher: the atoms of `stack`, in order, against s from
\* position i, with the captures c made so far.  ci: the i flag.
\* The leading Det atoms are matched at once (MatchAt).  An alternation tries
\* its branches left to right (MatchRest).  A quantified class takes the
\* greatest (greedy) or the least (lazy) number of symbols for which the rest
\* of the stack matches (MatchRun); viable leaves out the lengths after which
\* the rest cannot start.
MatchAt(stack, s, i, c, ci) ==
  IF Len(s) >= 0 /\ Len(c) = Len(NoCaps) /\ DetOk(stack, s, i, ci)
    THEN MatchRest(SubSeq(stack, LeadingDet(stack) + 1, Len(stack)), s,
                   PosAt(stack, i, LeadingDet(stack) + 1),
                   DetCaps(stack, i, LeadingDet(stack), c), ci)
    ELSE NoMatch

MatchRest(st, s, j, c, ci) ==
  IF Len(c) # Len(NoCaps) THEN NoMatch
  ELSE IF st = <<>> THEN [ok |-> TRUE, b |-> 0, e |-> j, c |-> c]
  ELSE IF Head(st).t = "alt"
    THEN LET first == MatchAt(Head(st).a \o Tail(st), s, j, c, ci)
         IN  IF first.ok THEN first ELSE MatchAt(Head(st).b \o Tail(st), s, j, c, ci)
  ELSE MatchRun(Head(st).t, Tail(st), s, j, c, ci,
                {k \in 0..Run(s, j, Head(st).r, ci) : DetOk(Tail(st), s, j + k, ci)})

MatchRun(t, rest, s, j, c, ci, viable) ==
  IF viable = {} THEN NoMatch
  ELSE IF Cardinality(viable) = 1 THEN MatchAt(rest, s, j + Min(viable), c, ci)
  ELSE LET byLen == [k \in viable |-> MatchAt(rest, s, j + k, c, ci)]
       IN  FirstFound(t, byLen, {k \in DOMAIN byLen : byLen[k].ok})

\* The matches of the atoms from every position p >= from at which they can
\* start.
MatchesFrom(atoms, s, from, ci) ==
  [p \in {q \in from..(Len(s) + 1) : DetOk(atoms, s, q, ci)} |->
     MatchAt(atoms, s, p, NoCaps, ci)]

\* The leftmost of the matches byStart[p] that start at position p.
Leftmost(byStart, starts) ==
  IF starts = {} THEN NoMatch ELSE [byStart[Min(starts)] EXCEPT !.b = Min(starts)]

LeftmostOf(byStart) == Leftmost(byStart, {p \in DOMAIN byStart : byStart[p].ok})

\* RegExp.prototype.exec from position `from` (1-based): the leftmost match.
Exec(re, s, from, ci) == LeftmostOf(MatchesFrom(Flat(re), s, from, ci))

\* The statements of a function body in program order: each value is
\* computed when its statement is reached, and the last one is the result.
Steps(values) == values[Len(values)]

\* The text of capture group n of match m ('' when the group did not take part).
Group(s, m, n) ==
  IF m.c[n][1] = 0 THEN <<>> ELSE SubSeq(s, m.c[n][1], m.c[n][2] - 1)

\* String.prototype.match with a non-global expression; RegExp.prototype.test.
\* (The receiver s is evaluated first, as in the source.)
StrMatch(re, s, ci) == IF Len(s) >= 0 THEN Exec(re, s, 1, ci) ELSE NoMatch
Test(re, s, ci) == Len(s) >= 0 /\ Exec(re, s, 1, ci).ok

\* The text without the match m (replace(..., '') with a non-global expression).
Without(s, m) == SubSeq(s, 1, m.b - 1) \o SubSeq(s, m.e, Len(s))

RECURSIVE MatchAllFrom(_, _, _, _)
RECURSIVE MatchAllAfter(_, _, _, _)
\* The successive matches from position `from`; after the match m the search
\* goes on where m ended (one further on after an empty match).
MatchAllFrom(re, s, from, ci) == MatchAllAfter(re, s, ci, Exec(re, s, from, ci))
MatchAllAfter(re, s, ci, m) ==
  IF ~m.ok THEN <<>>
  ELSE <<m>> \o MatchAllFrom(re, s, IF m.e = m.b THEN m.e + 1 ELSE m.e, ci)

\* String.prototype.matchAll with a global expression whose lastIndex is 0.
MatchAll(re, s, ci) == MatchAllFrom(re, s, 1, ci)

RECURSIVE Expand(_, _, _)
\* A replacement template: "$1", "$2", "$3" stand for the capture groups.
Expand(tmpl, s, m) ==
  IF tmpl = <<>> THEN <<>>
  ELSE (CASE Head(tmpl) = "$1" -> Group(s, m, 1)
          [] Head(tmpl) = "$2" -> Group(s, m, 2)
          [] Head(tmpl) = "$3" -> Group(s, m, 3)
          [] OTHER -> <<Head(tmpl)>>) \o Expand(Tail(tmpl), s, m)

RECURSIVE Splice(_, _, _, _)
RECURSIVE SpliceMatch(_, _, _, _, _)
\* s from position `from` with every match of ms replaced by the template.
Splice(ms, s, from, tmpl) ==
  IF ms = <<>> THEN SubSeq(s, from, Len(s)) ELSE SpliceMatch(Head(ms), Tail(ms), s, from, tmpl)
SpliceMatch(m, ms, s, from, tmpl) ==
  SubSeq(s, from, m.b - 1) \o Expand(tmpl, s, m) \o Splice(ms, s, m.e, tmpl)

\* s with the match m, if there is one, replaced by the template.
ReplaceMatch(m, s, tmpl) == IF m.ok THEN Splice(<<m>>, s, 1, tmpl) ELSE s

\* String.prototype.replace with a global expression / a non-global one.
\* (The receiver s is evaluated first, as in the source: the test on Len(s)
\* keeps a chain of replacements from being evaluated inside the matcher.)
ReplaceAll(re, s, ci, tmpl) ==
  IF Len(s) >= 0 THEN Splice(MatchAll(re, s, ci), s, 1, tmpl) ELSE s
ReplaceFirst(re, s, ci, tmpl) ==
  IF Len(s) >= 0 THEN ReplaceMatch(Exec(re, s, 1, ci), s, tmpl) ELSE s

RECURSIVE SplitParts(_, _, _)
RECURSIVE SplitMatch(_, _, _, _)
SplitParts(ms, s, from) ==
  IF ms = <<>> THEN <<SubSeq(s, from, Len(s))>> ELSE SplitMatch(Head(ms), Tail(ms), s, from)
SplitMatch(m, ms, s, from) ==
  <<SubSeq(s, from, m.b - 1)>>
    \o (IF m.c[1][1] = 0 THEN <<>> ELSE <<Group(s, m, 1)>>)
    \o SplitParts(ms, s, m.e)

\* String.prototype.split by an expression: the pieces between the matches,
\* with the text of capture group 1 (when the expression has one) between
\* them.  split never reads or writes the expression's lastIndex.
Split(re, s, ci) == SplitParts(MatchAll(re, s, ci), s, 1)

RECURSIVE TrimLeft(_)
TrimLeft(s) == IF s # <<>> /\ Head(s) \in Space THEN TrimLeft(Tail(s)) ELSE s
RECURSIVE TrimRight(_)
TrimRight(s) ==
  IF s # <<>> /\ s[Len(s)] \in Space THEN TrimRight(SubSeq(s, 1, Len(s) - 1)) ELSE s
\* String.prototype.trim.
Trim(s) == TrimRight(TrimLeft(s))


DigitChars == <<"0", "1", "2", "3", "4", "5", "6", "7", "8", "9">>
DigitVal(d) == (CHOOSE i \in 1..10 : DigitChars[i] = d) - 1
RECURSIVE ParseIntFrom(_, _)
ParseIntFrom(ds, acc) ==
  IF ds = <<>> THEN acc ELSE ParseIntFrom(Tail(ds), 10 * acc + DigitVal(Head(ds)))
\* parseInt on a captured \d+.
ParseInt(ds) == ParseIntFrom(ds, 0)

\* desc.includes('http')
IncludesHttp(desc) == \E i \in 1..Len(desc) : desc[i] \in UrlScheme

RECURSIVE InsertByNum(_, _)
InsertByNum(sorted, item) ==
  IF sorted = <<>> THEN <<item>>
  ELSE IF item.num < Head(sorted).num THEN <<item>> \o sorted
  ELSE <<Head(sorted)>> \o InsertByNum(Tail(sorted), item)
Unsorted(items) == items
RECURSIVE SortByNum(_)
\* items.sort((a, b) => a.num - b.num): a stable sort.
SortByNum(items) ==
  IF items = <<>> THEN <<>>
  ELSE InsertByNum(SortByNum(SubSeq(items, 1, Len(items) - 1)), items[Len(items)])

\* The index of the key `name` in an insertion-ordered object, 0 when absent.
KeyIndex(obj, name) ==
  IF \E i \in 1..Len(obj) : obj[i].name = name
    THEN CHOOSE i \in 1..Len(obj) : obj[i].name = name
    ELSE 0

\* Patterns shared by several expressions of both extractors.
CollapseWs(s) == ReplaceAll(Plus(Ws), s, FALSE, <<" ">>)
StripTrailingComma(s) == ReplaceFirst(Cat(<<Lit(","), Eol>>), s, FALSE, <<>>)
Url == Cat(<<Cls(UrlScheme), Plus(NonWs)>>)
CONCLUSION_RE == Lit("CONCLUSION")
AVAILABLE_AT_RE == Cat(<<Lit("available"), Plus(Ws), Lit("at")>>)

(***************************************************************************)
(* eb2-extractor.ts                                                        *)
(***************************************************************************)
EB2_Dash == {"-", "ndash", "mdash"}
EB2_Roman == {"I", "V", "X", "L", "C", "D", "M"}

EB2_SECTION_RX ==
  Cat(<<Bol, Plus(Cls(EB2_Roman)), Lit("."), Plus(Ws), Plus(AnyChar)>>)

\* (?:,?\s*available\s+at\s*[:\-...]?\s*(https?:\/\/\S+))?
EB2_AvailableAtGroup ==
  Opt(Cat(<<Opt(Lit(",")), Star(Ws), Lit("available"), Plus(Ws), Lit("at"), Star(Ws),
            Opt(Cls({":"} \cup EB2_Dash)), Star(Ws), Cap(3, Url)>>))

EB2_SEE_ATTACHMENT_RE ==
  Cat(<<Lit("("), Lit("See"), Plus(Ws), Lit("Attachment"), Plus(Ws), Cap(1, Plus(Dig)),
        Star(Ws), Cls(EB2_Dash), Star(Ws), Cap(2, LazyPlus(AnyChar)),
        EB2_AvailableAtGroup, Star(Ws), Lit(")")>>)

EB2_EMBEDDED_ATTACHMENT_RE ==
  Cat(<<Lit(","), Star(Ws), Lit("Attachment"), Plus(Ws), Cap(1, Plus(Dig)), Star(Ws),
        Cls(EB2_Dash), Star(Ws)>>)

EB2_ITEM_ENUM_RE ==
  Cat(<<Bol, Star(Ws), Lit("("), Cap(1, Plus(Dig)), Lit(")"), Star(Ws),
        Cap(2, LazyPlus(AnyChar)), EB2_AvailableAtGroup, Star(Ws), Opt(Lit(".")),
        Star(Ws), Eol>>)

\* /[\t\s]+\d+\s*$/ and /\s+\d+\s*$/
EB2_TOC_RE == Cat(<<Plus(Ws), Plus(Dig), Star(Ws), Eol>>)

\* /available\s+at\s+[:\-...]?\s*(https?:\/\/\S+)/i
EB2_URL_SCAN_RE ==
  Cat(<<Lit("available"), Plus(Ws), Lit("at"), Plus(Ws), Opt(Cls({":"} \cup EB2_Dash)),
        Star(Ws), Cap(1, Url)>>)

\* /(available\s+at)\s*[:\-...]?\s*$/i
EB2_AVAILABLE_AT_TAIL_RE ==
  Cat(<<Cap(1, AVAILABLE_AT_RE), Star(Ws), Opt(Cls({":"} \cup EB2_Dash)), Star(Ws), Eol>>)

\* /,?\s*available\s+at\s*[:\-...]?\s*(https?:\/\/\S+)/i
EB2_URL_IN_EMB_RE ==
  Cat(<<Opt(Lit(",")), Star(Ws), Lit("available"), Plus(Ws), Lit("at"), Star(Ws),
        Opt(Cls({":"} \cup EB2_Dash)), Star(Ws), Cap(1, Url)>>)

\* /,?\s*(?:pages?|pp\.?)\s*[\d\-...,\s]+/gi
EB2_PAGE_REF_RE ==
  Cat(<<Opt(Lit(",")), Star(Ws),
        Alt(Cls({"page", "pages"}), Cat(<<Lit("pp"), Opt(Lit("."))>>)), Star(Ws),
        Plus(Cls(Digit \cup EB2_Dash \cup {","} \cup Space))>>)

PetitionersCV == <<"Petitioner", "'", "s", " ", "CV">>

\* Lines 20-40.
EB2_normalizeHeadingPronouns(title) ==
  LET t1 == ReplaceAll(Cat(<<WordB, Lit("ABOUT"), Plus(Ws), Lit("ME"), WordB>>),
                       UpperCase(title), FALSE, <<"ABOUT", " ", "PETITIONER">>)
      t2 == ReplaceAll(Cat(<<WordB, Lit("OF"), Plus(Ws), Lit("MY"), WordB>>), t1, FALSE,
                       <<"OF", " ", "PETITIONER", "'", "S">>)
      t3 == ReplaceAll(Cat(<<WordB, Lit("THAT"), Plus(Ws), Lit("I"), Plus(Ws),
                             Lit("COMMAND"), WordB>>), t2, FALSE,
                       <<"THAT", " ", "PETITIONER", " ", "COMMANDS">>)
      t4 == ReplaceAll(Cat(<<WordB, Lit("THAT"), Plus(Ws), Lit("I"), Plus(Ws),
                             Lit("HAVE"), WordB>>), t3, FALSE,
                       <<"THAT", " ", "PETITIONER", " ", "HAS">>)
      t5 == ReplaceAll(Cat(<<WordB, Lit("THAT"), Plus(Ws), Lit("I"), Plus(Ws),
                             Lit("AM"), WordB>>), t4, FALSE,
                       <<"THAT", " ", "PETITIONER", " ", "IS">>)
      t6 == ReplaceAll(Cat(<<WordB, Lit("THAT"), Plus(Ws), Lit("I"), Plus(Ws),
                             Lit("WILL"), WordB>>), t5, FALSE,
                       <<"THAT", " ", "PETITIONER", " ", "WILL">>)
      t7 == ReplaceAll(Cat(<<WordB, Lit("THAT"), Plus(Ws), Lit("I"), WordB>>), t6, FALSE,
                       <<"THAT", " ", "PETITIONER">>)
      t8 == ReplaceAll(Cat(<<WordB, Lit("MY"), WordB>>), t7, FALSE,
                       <<"PETITIONER", "'", "S">>)
      \* /(^|[^A-Z])I([^A-Z]|$)/g: an I with no capital letter on either side
      t9 == ReplaceAll(Cat(<<Cap(1, Alt(Bol, Cls(NonCapitalLast))), Lit("I"),
                             Cap(2, Alt(Cls(NonCapitalFirst), Eol))>>), t8, FALSE,
                       <<"$1", "PETITIONER", "$2">>)
  IN  ReplaceAll(Cat(<<WordB, Lit("ME"), WordB>>), t9, FALSE, <<"PETITIONER">>)

\* Lines 45-48: a standalone "CV" becomes "Petitioner's CV".
EB2_prefixCV(desc) ==
  IF ~Test(Cat(<<Lit("Petitioner"), Opt(Lit("'")), Lit("s"), Plus(Ws), Lit("CV")>>), desc, TRUE)
    THEN ReplaceAll(Cat(<<WordB, Lit("CV"), WordB>>), desc, FALSE, PetitionersCV)
    ELSE desc

\* Lines 62-64.
EB2_endWithPeriod(desc) ==
  IF desc # <<>> /\ desc[Len(desc)] = "." THEN desc ELSE desc \o <<".">>

\* Lines 42-67.
EB2_cleanDesc(raw) ==
  LET d1 == EB2_prefixCV(Trim(raw))
      d2 == ReplaceAll(EB2_PAGE_REF_RE, d1, TRUE, <<>>)
      d3 == ReplaceFirst(Cat(<<Lit(")"), Lit("."), Eol>>), d2, FALSE, <<".">>)
      d4 == ReplaceFirst(Cat(<<Lit(")"), Eol>>), d3, FALSE, <<>>)
      d5 == ReplaceFirst(Cat(<<Lit(","), Star(Ws), Eol>>), d4, FALSE, <<>>)
  IN  EB2_endWithPeriod(Trim(d5))

NoItem == [num |-> 0, desc |-> <<>>]

\* fullDesc of lines 140-147 and 231-238: the description with its URL.
EB2_withUrl(desc, url) ==
  IF url = <<>> THEN desc
  ELSE IF ~Test(AVAILABLE_AT_RE, desc, TRUE)
         THEN desc \o <<",", " ", "available", " ", "at", " ">> \o url
         ELSE ReplaceFirst(EB2_AVAILABLE_AT_TAIL_RE, desc, TRUE, <<"$1", " ">> \o url)

\* The URL a scan of a text for "available at ... URL" found, '' when none.
UrlFound(s, found) == IF found.ok THEN Group(s, found, 1) ELSE <<>>

\* Lines 131-138 and 223-229: the URL the expression captured or, without
\* one, the URL found in the text after it.
EB2_urlOr(url, s) ==
  IF url = <<>> THEN UrlFound(s, StrMatch(EB2_URL_SCAN_RE, s, TRUE)) ELSE url

\* Lines 128-149: the item of one "(See Attachment N - ...)" match.
EB2_seeItem(trimmed, m) ==
  [num |-> ParseInt(Group(trimmed, m, 1)),
   desc |-> EB2_cleanDesc(
              EB2_withUrl(StripTrailingComma(Trim(Group(trimmed, m, 2))),
                          EB2_urlOr(Trim(Group(trimmed, m, 3)),
                                    SubSeq(trimmed, m.e, Len(trimmed)))))]

RECURSIVE EB2_seeItems(_, _)
\* Lines 115-152 without the tests of 119-126: the item of every match.
EB2_seeItems(trimmed, ms) ==
  IF ms = <<>> THEN <<>>
  ELSE <<EB2_seeItem(trimmed, Head(ms))>> \o EB2_seeItems(trimmed, Tail(ms))

\* Lines 211-214.
EB2_fullEmbDesc(embDesc, embUrl) ==
  IF embUrl # <<>> THEN embDesc \o <<",", " ", "available", " ", "at", " ">> \o embUrl
  ELSE embDesc

\* Lines 204-209: a chained description and the URL found in it.
EB2_embUrlSplit(embDesc, urlInEmb) ==
  IF urlInEmb.ok
    THEN EB2_fullEmbDesc(Trim(Without(embDesc, urlInEmb)), Group(embDesc, urlInEmb, 1))
    ELSE EB2_fullEmbDesc(embDesc, <<>>)

\* Lines 203-214.
EB2_embDescWithUrl(embDesc) ==
  EB2_embUrlSplit(embDesc, StrMatch(EB2_URL_IN_EMB_RE, embDesc, TRUE))

\* Lines 192-216: the item of one chained ", Attachment M - desc" fragment.
EB2_embeddedItem(numText, descText) ==
  [num |-> ParseInt(numText),
   desc |-> EB2_cleanDesc(
              EB2_embDescWithUrl(
                ReplaceFirst(Cat(<<Lit("."), Star(Ws), Eol>>),
                  ReplaceFirst(Cat(<<Lit(","), Star(Ws), Eol>>), Trim(descText), FALSE, <<>>),
                  FALSE, <<>>)))]

RECURSIVE EB2_embeddedItems(_, _)
\* Lines 191-217 without the tests of 196-201:
\* for (let i = 1; i < parts.length - 1; i += 2), i counted from 1.
EB2_embeddedItems(parts, i) ==
  IF i >= Len(parts) THEN <<>>
  ELSE <<EB2_embeddedItem(parts[i], parts[i + 1])>> \o EB2_embeddedItems(parts, i + 2)

\* RegExp.prototype.test of a global expression: whether it matched, and the
\* lastIndex it is left with (one less than the 1-based position e).
TestResult(m) == [ok |-> m.ok, e |-> m.e]

RECURSIVE EB2_testsFrom(_, _)
\* EMBEDDED_ATTACHMENT_RE.test(desc) of line 176 for every lastIndex `from`
\* and later: a global expression searches from its lastIndex.
EB2_testsFrom(desc, from) ==
  IF from > Len(desc) THEN <<>>
  ELSE <<TestResult(Exec(EB2_EMBEDDED_ATTACHMENT_RE, desc, from + 1, TRUE))>>
         \o EB2_testsFrom(desc, from + 1)

EB2_noEnum ==
  [ok |-> FALSE, num |-> 0, testAt |-> <<>>, plain |-> NoItem, main |-> NoItem,
   chained |-> <<>>]

\* Lines 185-240 for the parts the description splits into.
EB2_enumParts(num, desc, url, parts) ==
  [ok |-> TRUE, num |-> num, testAt |-> EB2_testsFrom(desc, 0),
   plain |-> [num |-> num, desc |-> EB2_cleanDesc(EB2_withUrl(desc, url))],
   main |-> [num |-> num,
             desc |-> EB2_cleanDesc(
                        EB2_withUrl(ReplaceFirst(Cat(<<Lit(","), Star(Ws), Eol>>),
                                                 Trim(parts[1]), FALSE, <<>>), url))],
   chained |-> EB2_embeddedItems(parts, 2)]

EB2_enumMatch(trimmed, m) ==
  IF ~m.ok THEN EB2_noEnum
  ELSE EB2_enumParts(ParseInt(Group(trimmed, m, 1)),
                     StripTrailingComma(Trim(Group(trimmed, m, 2))),
                     EB2_urlOr(Trim(Group(trimmed, m, 3)), trimmed),
                     Split(EB2_EMBEDDED_ATTACHMENT_RE,
                           StripTrailingComma(Trim(Group(trimmed, m, 2))), TRUE))

\* Lines 157-240 without the tests of 162-169 and 196-201: what the plain
\* enumeration "(N) description" reads from a paragraph.  testAt[from + 1] is
\* EMBEDDED_ATTACHMENT_RE.test(desc) started at lastIndex = from.  plain is
\* the item pushed when that test fails, main and chained are the items of
\* lines 185-220 and 240 when it succeeds.
EB2_enum(trimmed) == EB2_enumMatch(trimmed, StrMatch(EB2_ITEM_ENUM_RE, trimmed, TRUE))

\* A test that takes a CONCLUSION line for a section header.
EB2_isHeaderShaped(trimmed) == Test(EB2_SECTION_RX, trimmed, TRUE)
\* Lines 84-107: the paragraph is a section header (84), a table-of-contents
\* entry that is passed over (86), or neither.
EB2_isHeader(trimmed) ==
  Test(EB2_SECTION_RX, trimmed, TRUE) /\ ~Test(CONCLUSION_RE, trimmed, TRUE)
EB2_isTocEntry(trimmed) == Test(EB2_TOC_RE, trimmed, FALSE)
\* Lines 90-94.
EB2_sectionName(trimmed) ==
  EB2_normalizeHeadingPronouns(
    Trim(ReplaceFirst(EB2_TOC_RE, Trim(CollapseWs(trimmed)), FALSE, <<>>)))

EB2_parseAs(trimmed, header) ==
  [blank |-> trimmed = <<>>, header |-> header, toc |-> EB2_isTocEntry(trimmed),
   name |-> IF header THEN EB2_sectionName(trimmed) ELSE <<>>,
   see |-> IF header THEN <<>>
           ELSE EB2_seeItems(trimmed, MatchAll(EB2_SEE_ATTACHMENT_RE, trimmed, TRUE)),
   enum |-> IF header THEN EB2_noEnum ELSE EB2_enum(trimmed)]

EB2_parseTrimmed(trimmed) == EB2_parseAs(trimmed, EB2_isHeader(trimmed))

\* Everything extractEB2 reads from the text of one paragraph (lines 80-240):
\* the expressions' matches and the cleaned items they give.  Which of the
\* items are used depends on the sections seen so far: EB2_paragraph.
EB2_parse(paragraph) == EB2_parseTrimmed(Trim(paragraph))

\* Lines 119-126, 162-169, 196-201: a number already seen in another section,
\* or in the current one, is skipped.
EB2_skip(ctx, num) ==
  \/ /\ num \in DOMAIN ctx.seenGlobally
     /\ ctx.currentSec # <<>>
     /\ ctx.seenGlobally[num] # ctx.currentSec
  \/ /\ ctx.currentSec # <<>>
     /\ num \in ctx.seenInSec[ctx.currentSec]

\* The items that are not skipped.
EB2_unskipped(ctx, items) ==
  LET Kept(item) == ~EB2_skip(ctx, item.num)
  IN  SelectSeq(items, Kept)

\* The assignment EMBEDDED_ATTACHMENT_RE.lastIndex = 0 of lines 175 and 178.
KeepLastIndex(lastIndexNow) == lastIndexNow
ResetLastIndex(lastIndexNow) == 0

\* Line 176: EMBEDDED_ATTACHMENT_RE.test(desc) with the lastIndex `from`; a
\* lastIndex beyond the text fails the test.
EB2_testEmbedded(p, from) ==
  IF from + 1 \in DOMAIN p.enum.testAt THEN p.enum.testAt[from + 1]
  ELSE [ok |-> FALSE, e |-> 0]

\* Lines 109-242: foundItems of a paragraph that is not a header, and the
\* lastIndex the shared global expression is left with (test leaves it after
\* its match, or at 0 when it fails).
EB2_found(ctx, p) ==
  LET seeFound == EB2_unskipped(ctx, p.see)
      test == EB2_testEmbedded(p, ResetLastIndex(ctx.lastIndex))
  IN  IF seeFound # <<>> THEN [items |-> seeFound, lastIndex |-> ctx.lastIndex]
      ELSE IF ~p.enum.ok \/ EB2_skip(ctx, p.enum.num)
             THEN [items |-> <<>>, lastIndex |-> ctx.lastIndex]
      ELSE IF test.ok
             THEN [items |-> EB2_unskipped(ctx, p.enum.chained) \o <<p.enum.main>>,
                   lastIndex |-> ResetLastIndex(test.e - 1)]
      ELSE [items |-> <<p.enum.plain>>, lastIndex |-> 0]

EB2_addUnrecorded(ctx, item) ==
  IF ctx.currentSec # <<>>
    THEN [ctx EXCEPT
            !.preSectionItems =
               [n \in DOMAIN ctx.preSectionItems \ {item.num} |-> ctx.preSectionItems[n]],
            !.bySec[KeyIndex(ctx.bySec, ctx.currentSec)].items = Append(@, item),
            !.seenInSec[ctx.currentSec] = @ \cup {item.num}]
    ELSE [ctx EXCEPT
            !.preSectionItems =
               [n \in DOMAIN ctx.preSectionItems \cup {item.num} |->
                  IF n = item.num THEN item ELSE ctx.preSectionItems[n]]]
\* Lines 245-261: one found item is added to the current section (leaving the
\* pre-section buffer) or, before the first section, to the pre-section buffer.
EB2_addItem(ctx, item) ==
  IF ctx.currentSec # <<>>
    THEN IF item.num \notin DOMAIN ctx.seenGlobally \/ item.num \in DOMAIN ctx.preSectionItems
           THEN LET k == KeyIndex(ctx.bySec, ctx.currentSec)
                IN  [ctx EXCEPT
                       !.preSectionItems =
                          [n \in DOMAIN ctx.preSectionItems \ {item.num} |->
                             ctx.preSectionItems[n]],
                       !.bySec[k].items = Append(@, item),
                       !.seenInSec[ctx.currentSec] = @ \cup {item.num},
                       !.seenGlobally =
                          [n \in DOMAIN ctx.seenGlobally \cup {item.num} |->
                             IF n = item.num THEN ctx.currentSec ELSE ctx.seenGlobally[n]]]
           ELSE ctx
    ELSE IF item.num \notin DOMAIN ctx.seenGlobally
           THEN [ctx EXCEPT
                   !.preSectionItems =
                      [n \in DOMAIN ctx.preSectionItems \cup {item.num} |->
                         IF n = item.num THEN item ELSE ctx.preSectionItems[n]]]
           ELSE ctx

RECURSIVE EB2_addItems(_, _)
EB2_addItems(ctx, items) ==
  IF items = <<>> THEN ctx ELSE EB2_addItems(EB2_addItem(ctx, Head(items)), Tail(items))

\* Lines 90-106: an accepted header.
EB2_header(ctx, cleanSec) ==
  IF KeyIndex(ctx.bySec, cleanSec) = 0
    THEN [ctx EXCEPT
            !.currentSec = cleanSec,
            !.bySec = Append(@, [name |-> cleanSec, items |-> <<>>]),
            !.seenInSec =
               [k \in DOMAIN ctx.seenInSec \cup {cleanSec} |->
                  IF k = cleanSec THEN {} ELSE ctx.seenInSec[k]]]
    ELSE [ctx EXCEPT !.currentSec = cleanSec]

\* Lines 79-262: one iteration of the loop over the paragraphs, p being what
\* the paragraph reads as.
EB2_paragraph(ctx, p) ==
  LET found == EB2_found(ctx, p)
  IN  IF p.blank THEN ctx
      ELSE IF p.header THEN (IF p.toc THEN ctx ELSE EB2_header(ctx, p.name))
      ELSE EB2_addItems([ctx EXCEPT !.lastIndex = found.lastIndex], found.items)

\* Lines 70-75: the state of a call before the loop.
EB2_start(lastIndexNow) ==
  [bySec |-> <<>>, seenInSec |-> <<>>, seenGlobally |-> <<>>, preSectionItems |-> <<>>,
   currentSec |-> <<>>, lastIndex |-> lastIndexNow]

RECURSIVE FunValues(_, _)
\* The values of a number-keyed object in for-in order (ascending keys).
FunValues(f, keys) ==
  IF keys = {} THEN <<>>
  ELSE LET k == CHOOSE n \in keys : \A o \in keys : n <= o
       IN  <<f[k]>> \o FunValues(f, keys \ {k})

RECURSIVE EB2_unseen(_, _)
\* Lines 271-277 and 285-290: the items whose number is not in finalSeen yet.
EB2_unseen(items, finalSeen) ==
  IF items = <<>> THEN <<>>
  ELSE IF Head(items).num \in finalSeen THEN EB2_unseen(Tail(items), finalSeen)
  ELSE <<Head(items)>> \o EB2_unseen(Tail(items), finalSeen \cup {Head(items).num})

ItemNums(items) == {items[i].num : i \in 1..Len(items)}

RECURSIVE EB2_sections(_, _)
\* Lines 283-294: the sections in the insertion order of bySec.
EB2_sections(entries, finalSeen) ==
  IF entries = <<>> THEN <<>>
  ELSE LET sectionItems == EB2_unseen(Head(entries).items, finalSeen)
       IN  (IF sectionItems # <<>>
              THEN <<[name |-> Head(entries).name, items |-> SortByNum(sectionItems)]>>
              ELSE <<>>)
           \o EB2_sections(Tail(entries), finalSeen \cup ItemNums(sectionItems))

\* Lines 264-296: the final pass.
EB2_result(ctx) ==
  LET preSectionList ==
        EB2_unseen(FunValues(ctx.preSectionItems, DOMAIN ctx.preSectionItems), {})
  IN  (IF preSectionList # <<>>
         THEN <<[name |-> <<>>, items |-> SortByNum(preSectionList)]>> ELSE <<>>)
      \o EB2_sections(ctx.bySec, ItemNums(preSectionList))

RECURSIVE EB2_loop(_, _)
EB2_loop(ctx, paragraphs) ==
  IF paragraphs = <<>> THEN ctx
  ELSE EB2_loop(EB2_paragraph(ctx, Head(paragraphs)), Tail(paragraphs))

(***************************************************************************)
(* eb1-extractor.ts                                                        *)
(***************************************************************************)
\* The dash classes of this file hold the hyphen and, where the source meant
\* the en dash, em dash and their relatives, the letters those characters
\* turned into when the file was saved in the wrong encoding: nine Cyrillic
\* letters.  Neither "ndash" nor "mdash" is in the class.
EB1_Mojibake ==
  {"CYR_te", "CYR_A", "CYR_U", "CYR_EF", "CYR_I", "CYR_TE", "CYR_ER", "CYR_ES", "CYR_HA"}
EB1_DASH_CHARS == {"-"} \cup EB1_Mojibake
\* [\d\-...,\s] of lines 28, 58 and 118
EB1_PageChars == Digit \cup {"-", "CYR_te", "CYR_A", "CYR_U", "CYR_EF", ","} \cup Space

EB1_SEE_ATTACHMENT_RE ==
  Cat(<<Lit("("), Lit("See"), Plus(Ws), Lit("Attachment"), Plus(Ws), Cap(1, Plus(Dig)),
        Star(Ws), Cls(EB1_DASH_CHARS), Star(Ws), Cap(2, LazyPlus(AnyChar)),
        Opt(Cat(<<Opt(Lit(",")), Star(Ws), Lit("available"), Plus(Ws), Lit("at"), Star(Ws),
                  Opt(Cls({":"} \cup EB1_DASH_CHARS)), Star(Ws),
                  Cap(3, Cat(<<Cls(UrlScheme), Plus(NotCls(Space \cup {")"}))>>))>>)),
        Star(Ws), Lit(")")>>)

EB1_ITEM_ENUM_RE ==
  Cat(<<Bol, Star(Ws), Lit("("), Cap(1, Plus(Dig)), Lit(")"), Star(Ws),
        Cap(2, LazyPlus(AnyChar)),
        Opt(Cat(<<Lit(","), Star(Ws), Lit("available"), Plus(Ws), Lit("at"), Star(Ws),
                  Opt(Cls({":"} \cup EB1_DASH_CHARS)), Star(Ws), Cap(3, Url)>>)),
        Star(Ws), Opt(Lit(".")), Star(Ws), Eol>>)

EB1_SECTION_LINE_RE ==
  Cat(<<Bol, Star(Ws),
        Alt(Cat(<<Lit("EVIDENCE"), WordB, Star(AnyChar)>>),
            Alt(Cat(<<Lit("DOCUMENTATION"), Lit(" "), Lit("TO"), Lit(" "), Lit("ESTABLISH"),
                      WordB, Star(AnyChar)>>),
                Cat(<<Lit("SUSTAINED"), Lit(" "), Lit("NATIONAL"), Lit(" "), Lit("OR"),
                      Lit(" "), Lit("INTERNATIONAL"), Lit(" "), Lit("ACCLAIM"), WordB,
                      Star(AnyChar)>>))),
        Eol>>)

EB1_TOC_LINE_RE ==
  Cat(<<Lit("("), Cls({"Page", "Pages"}), Star(Ws), Plus(Cls(EB1_PageChars)), Lit(")"),
        Star(Ws), Opt(Cls({";", "."})), Star(Ws), Eol>>)

\* /^Attachment\s+(\d+)\s*[-...]\s*(.+?)(?:,\s*available\s+at\s*[:|\-...]?\s*(https?:\/\/\S+))?\s*\.?\s*$/i
EB1_ATTACHMENT_LINE_RE ==
  Cat(<<Bol, Lit("Attachment"), Plus(Ws), Cap(1, Plus(Dig)), Star(Ws), Cls(EB1_DASH_CHARS),
        Star(Ws), Cap(2, LazyPlus(AnyChar)),
        Opt(Cat(<<Lit(","), Star(Ws), Lit("available"), Plus(Ws), Lit("at"), Star(Ws),
                  Opt(Cls({":", "|"} \cup EB1_DASH_CHARS)), Star(Ws), Cap(3, Url)>>)),
        Star(Ws), Opt(Lit(".")), Star(Ws), Eol>>)

\* /,?\s*available\s+at\s*[:|\-...]?\s*(https?:\/\/\S+)/i  (lines 151, 200, 213)
EB1_URL_IN_DESC_RE ==
  Cat(<<Opt(Lit(",")), Star(Ws), Lit("available"), Plus(Ws), Lit("at"), Star(Ws),
        Opt(Cls({":", "|"} \cup EB1_DASH_CHARS)), Star(Ws), Cap(1, Url)>>)

\* `,?\s*available\s+at\s*[:${DASH_CHARS}]?\s*(https?:\/\/\S+)`  (line 308)
EB1_URL_IN_EMB_RE ==
  Cat(<<Opt(Lit(",")), Star(Ws), Lit("available"), Plus(Ws), Lit("at"), Star(Ws),
        Opt(Cls({":"} \cup EB1_DASH_CHARS)), Star(Ws), Cap(1, Url)>>)

\* `available\s+at\s+[:${DASH_CHARS}]?\s*(https?:\/\/\S+)`  (lines 180, 270)
EB1_URL_SCAN_RE ==
  Cat(<<Lit("available"), Plus(Ws), Lit("at"), Plus(Ws), Opt(Cls({":"} \cup EB1_DASH_CHARS)),
        Star(Ws), Cap(1, Url)>>)

\* `(available\s+at)\s*[:${DASH_CHARS}]?\s*$`  (lines 242, 336)
EB1_AVAILABLE_AT_TAIL_RE ==
  Cat(<<Cap(1, AVAILABLE_AT_RE), Star(Ws), Opt(Cls({":"} \cup EB1_DASH_CHARS)), Star(Ws),
        Eol>>)

\* /,?\s*Attachment\s+(\d+)\s*[-...]?\s*/gi  (lines 188, 192, 193)
EB1_SEE_EMBEDDED_RE ==
  Cat(<<Opt(Lit(",")), Star(Ws), Lit("Attachment"), Plus(Ws), Cap(1, Plus(Dig)), Star(Ws),
        Opt(Cls(EB1_DASH_CHARS)), Star(Ws)>>)

\* /,\s*Attachment\s+(\d+)\s*[-...]?\s*/gi  (line 282)
EB1_embeddedSplitPattern ==
  Cat(<<Lit(","), Star(Ws), Lit("Attachment"), Plus(Ws), Cap(1, Plus(Dig)), Star(Ws),
        Opt(Cls(EB1_DASH_CHARS)), Star(Ws)>>)

\* Lines 30-52.
EB1_normalizeHeadingPronouns(titleUpper) ==
  LET That(w) == Cat(<<WordB, Lit("THAT"), Plus(Ws), Lit("I"), Plus(Ws), Lit(w), WordB>>)
      Petitioner(w) == <<"THAT", " ", "PETITIONER", " ", w>>
      t1 == ReplaceAll(Cat(<<WordB, Lit("ABOUT"), Plus(Ws), Lit("ME"), WordB>>), titleUpper,
                       FALSE, <<"ABOUT", " ", "PETITIONER">>)
      t2 == ReplaceAll(Cat(<<WordB, Lit("THAT"), Plus(Ws), Lit("MY"), Plus(Ws),
                             Lit("COMMAND"), WordB>>), t1, FALSE, Petitioner("COMMANDS"))
      t3 == ReplaceAll(That("COMMAND"), t2, FALSE, Petitioner("COMMANDS"))
      t4 == ReplaceAll(That("HAVE"), t3, FALSE, Petitioner("HAS"))
      t5 == ReplaceAll(That("AM"), t4, FALSE, Petitioner("IS"))
      t6 == ReplaceAll(That("WILL"), t5, FALSE, Petitioner("WILL"))
      t7 == ReplaceAll(Cat(<<WordB, Lit("THAT"), Plus(Ws), Lit("I"), WordB>>), t6, FALSE,
                       <<"THAT", " ", "PETITIONER">>)
      t8 == ReplaceAll(Cat(<<WordB, Lit("OF"), Plus(Ws), Lit("MY"), WordB>>), t7, FALSE,
                       <<"OF", " ", "PETITIONER", "'", "S">>)
      t9 == ReplaceAll(Cat(<<WordB, Lit("MY"), WordB>>), t8, FALSE, <<"PETITIONER", "'", "S">>)
      t10 == ReplaceAll(Cat(<<Cap(1, Alt(Bol, Cls(NonCapitalLast))), Lit("I"),
                              Cap(2, Alt(Cls(NonCapitalFirst), Eol))>>), t9, FALSE,
                        <<"$1", "PETITIONER", "$2">>)
  IN  ReplaceAll(Cat(<<WordB, Lit("ME"), WordB>>), t10, FALSE, <<"PETITIONER">>)

AvailableAt == <<",", " ", "available", " ", "at", " ">>

\* Line 74: a description that is not empty gets its period.
EB1_endWithPeriod(desc) == IF desc # <<>> THEN desc \o <<".">> ELSE desc

\* Lines 66-75: a description that ends with a URL is returned as it is;
\* another one loses its trailing ", -" and punctuation and gets one period.
EB1_terminate(desc) ==
  IF Test(Cat(<<Url, Eol>>), desc, FALSE) THEN desc
  ELSE EB1_endWithPeriod(
         ReplaceFirst(Cat(<<Plus(Cls(Space \cup {".", ",", ";"})), Eol>>),
           ReplaceFirst(Cat(<<Star(Ws), Lit(","), Star(Ws), Lit("-"), Star(Ws), Eol>>), desc,
                        FALSE, <<>>),
           FALSE, <<>>))

\* Lines 54-76.
EB1_cleanDesc(raw) ==
  LET d1 == ReplaceAll(Cat(<<Opt(Lit(",")), Star(Ws),
                             Alt(Cls({"page", "pages"}), Cat(<<Lit("pp"), Opt(Lit("."))>>)),
                             Star(Ws), Plus(Cls(EB1_PageChars))>>), CollapseWs(Trim(raw)),
                       TRUE, <<>>)
      d2 == ReplaceAll(Cat(<<WordB, Lit("is"), Lit(","), Star(Ws), Lit("available"), Plus(Ws),
                             Lit("at"), WordB>>), d1, TRUE,
                       <<"is", " ", "available", " ", "at">>)
      d3 == ReplaceAll(Cat(<<Opt(Lit(",")), Star(Ws), Lit("available"), Plus(Ws), Lit("at"),
                             Star(Ws), Opt(Cls({":", "|"} \cup EB1_DASH_CHARS)), Star(Ws)>>),
                       d2, TRUE, AvailableAt)
  IN  EB1_terminate(d3)

\* Lines 81-93: one candidate of dedupeBest against the best kept so far.
PreferFirst(cur, desc) == cur
PreferBest(cur, desc) ==
  LET candHasUrl == IncludesHttp(desc)
      curHasUrl == IncludesHttp(cur)
  IN  IF (candHasUrl /\ ~curHasUrl) \/ (candHasUrl = curHasUrl /\ CharLen(desc) > CharLen(cur))
        THEN desc ELSE cur

RECURSIVE EB1_bestOf(_, _)
EB1_bestOf(pairs, best) ==
  IF pairs = <<>> THEN best
  ELSE LET num == Head(pairs).num
           desc == Head(pairs).desc
       IN  EB1_bestOf(Tail(pairs),
             [n \in DOMAIN best \cup {num} |->
                IF n # num THEN best[n]
                ELSE IF num \notin DOMAIN best \/ best[num] = <<>> THEN desc
                ELSE PreferBest(best[num], desc)])

\* Lines 95-98: the entries of the map, sorted by number.
EB1_entries(best) ==
  SortByNum(FunValues([n \in DOMAIN best |-> [num |-> n, desc |-> best[n]]], DOMAIN best))

EB1_keepAll(pairs) == SortByNum(pairs)
\* Lines 78-99.
EB1_dedupeBest(pairs) == EB1_entries(EB1_bestOf(pairs, <<>>))

\* Lines 124-126.
EB1_leadingRole(title) ==
  IF Test(Cat(<<Lit("EVIDENCE"), Star(AnyChar), Lit("LEADING"), Star(AnyChar),
                Lit("CRITICAL"), Star(AnyChar), Lit("ROLE")>>), title, TRUE)
    THEN <<"EVIDENCE", " ", "OF", " ", "LEADING", " ", "OR", " ", "CRITICAL", " ",
           "ROLE", " ", "IN", " ", "AN", " ", "ORGANIZATION">>
    ELSE title

\* Lines 127-129.
EB1_membership(title) ==
  IF Test(Cat(<<Lit("EVIDENCE"), Star(AnyChar), Lit("MEMBERSHIP"), Star(AnyChar),
                Lit("ASSOCIATIONS"), Star(AnyChar), Cls({"THAT", "WHICH"}), Star(AnyChar),
                Lit("DEMAND")>>), title, TRUE)
    THEN <<"EVIDENCE", " ", "OF", " ", "PETITIONER", "'", "S", " ", "MEMBERSHIP", " ",
           "IN", " ", "ASSOCIATIONS", " ", "IN", " ", "THE", " ", "FIELD", " ", "WHICH",
           " ", "DEMAND", " ", "OUTSTANDING", " ", "ACHIEVEMENT", " ", "OF", " ",
           "THEIR", " ", "MEMBERS">>
    ELSE title

\* Lines 116-130: the title of an accepted header.
EB1_sectionTitle(trimmed) ==
  LET t1 == ReplaceAll(Cat(<<Star(Ws), Lit("("), Cls({"PAGE", "PAGES"}), Plus(Ws),
                             Plus(Cls(EB1_PageChars)), Lit(")")>>),
                       UpperCase(CollapseWs(trimmed)), TRUE, <<>>)
      t2 == Trim(ReplaceFirst(Cat(<<Plus(Cls({";", "."})), Eol>>), t1, FALSE, <<>>))
  IN  EB1_membership(EB1_leadingRole(EB1_normalizeHeadingPronouns(t2)))

\* Line 115.
EB1_isHeader(trimmed) ==
  /\ Test(EB1_SECTION_LINE_RE, trimmed, TRUE)
  /\ ~Test(CONCLUSION_RE, trimmed, TRUE)
  /\ ~Test(EB1_TOC_LINE_RE, trimmed, TRUE)

\* A heading that moves its section to the end of groups when it recurs.
EB1_headerMoved(ctx, title) ==
  LET k == KeyIndex(ctx.groups, title)
  IN  IF k = 0
        THEN [ctx EXCEPT !.currentSection = title,
                         !.groups = Append(@, [name |-> title, items |-> <<>>])]
        ELSE [ctx EXCEPT !.currentSection = title,
                         !.groups = SubSeq(@, 1, k - 1) \o SubSeq(@, k + 1, Len(@))
                                      \o <<@[k]>>]

\* Lines 132-135.
EB1_header(ctx, title) ==
  IF KeyIndex(ctx.groups, title) = 0
    THEN [ctx EXCEPT !.currentSection = title,
                     !.groups = Append(@, [name |-> title, items |-> <<>>])]
    ELSE [ctx EXCEPT !.currentSection = title]

\* A description with the URL that goes with it.
EB1_join(desc, url) == IF url # <<>> THEN desc \o AvailableAt \o url ELSE desc

\* Lines 149-160: without a captured URL, one found in the description is
\* taken out of it.
EB1_lineFull(desc, url, urlMatch) ==
  IF url = <<>> /\ urlMatch.ok
    THEN EB1_join(Trim(Without(desc, urlMatch)), Group(desc, urlMatch, 1))
    ELSE EB1_join(desc, url)

EB1_lineDesc(desc, url) ==
  EB1_lineFull(desc, url, StrMatch(EB1_URL_IN_DESC_RE, desc, TRUE))

EB1_lineMatch(trimmed, m) ==
  IF m.ok
    THEN <<[num |-> ParseInt(Group(trimmed, m, 1)),
            desc |-> EB1_cleanDesc(
                       EB1_lineDesc(StripTrailingComma(Trim(Group(trimmed, m, 2))),
                                    Trim(Group(trimmed, m, 3))))]>>
    ELSE <<>>

\* Lines 143-165: "Attachment N - description" at the start of the paragraph.
EB1_attachmentLine(trimmed) ==
  EB1_lineMatch(trimmed, StrMatch(EB1_ATTACHMENT_LINE_RE, trimmed, TRUE))

\* Lines 224-226 and 319-321: a chained description that is not empty is pushed.
EB1_embPair(num, embDesc, embUrl) ==
  IF embDesc # <<>> THEN <<[num |-> num, desc |-> EB1_cleanDesc(EB1_join(embDesc, embUrl))]>>
  ELSE <<>>

EB1_embMatch(num, embDesc, um, stripUrlComma) ==
  IF um.ok
    THEN EB1_embPair(num, Trim(Without(embDesc, um)),
                     IF stripUrlComma THEN StripTrailingComma(Group(embDesc, um, 1))
                     ELSE Group(embDesc, um, 1))
    ELSE EB1_embPair(num, embDesc, <<>>)

\* Lines 213-226 and 308-321: a chained description with its own URL.
EB1_embWithUrl(num, embDesc, re, stripUrlComma) ==
  EB1_embMatch(num, embDesc, StrMatch(re, embDesc, TRUE), stripUrlComma)

RECURSIVE EB1_seeEmbedded(_, _, _, _)
\* Lines 207-227: for (let i = 0; i < embNums.length; i++), i counted from 1.
EB1_seeEmbedded(desc, parts, embNums, i) ==
  IF i > Len(embNums) THEN <<>>
  ELSE EB1_embWithUrl(ParseInt(Group(desc, embNums[i], 1)),
                      StripTrailingComma(
                        Trim(IF i + 1 <= Len(parts) THEN parts[i + 1] ELSE <<>>)),
                      EB1_URL_IN_DESC_RE, FALSE)
         \o EB1_seeEmbedded(desc, parts, embNums, i + 1)

\* Lines 237-244 and 332-337: the main description with its URL.
EB1_withUrl(desc, url) ==
  IF url = <<>> THEN desc
  ELSE IF ~Test(AVAILABLE_AT_RE, desc, TRUE) THEN desc \o AvailableAt \o url
  ELSE ReplaceFirst(EB1_AVAILABLE_AT_TAIL_RE, desc, TRUE, <<"$1", " ">> \o url)

\* Lines 178-185 and 268-275: the URL the expression captured or, without
\* one, the URL found in the text after it.
EB1_urlOr(url, s) ==
  IF url = <<>> THEN UrlFound(s, StrMatch(EB1_URL_SCAN_RE, s, TRUE)) ELSE url

\* Lines 229-249 and 324-342: the main item of a paragraph with chained
\* attachments; the URL of its own description serves when no other is known.
EB1_mainItem(num, mainDesc, mainUrl, url) ==
  [num |-> num,
   desc |-> EB1_cleanDesc(
              EB1_withUrl(mainDesc, IF mainUrl # <<>> /\ url = <<>> THEN mainUrl ELSE url))]

\* Lines 198-205.
EB1_seeMainMatch(num, mainDesc, mm, url) ==
  IF mm.ok
    THEN EB1_mainItem(num, Trim(Without(mainDesc, mm)), Group(mainDesc, mm, 1), url)
    ELSE EB1_mainItem(num, mainDesc, <<>>, url)

EB1_seeMain(num, mainDesc, url) ==
  EB1_seeMainMatch(num, mainDesc, StrMatch(EB1_URL_IN_DESC_RE, mainDesc, TRUE), url)

\* Lines 192-227: the description split by the chained attachment numbers.
EB1_seeParts(num, desc, url, embNums, parts) ==
  <<EB1_seeMain(num, StripTrailingComma(Trim(parts[1])), url)>>
    \o EB1_seeEmbedded(desc, parts, embNums, 1)

\* split by the same expression without its capture group
EB1_seeSplit(num, desc, url, embNums) ==
  EB1_seeParts(num, desc, url, embNums,
               SplitParts([i \in 1..Len(embNums) |-> [embNums[i] EXCEPT !.c = NoCaps]],
                          desc, 1))

\* Lines 187-249.
EB1_seeRead(num, desc, url) ==
  IF Test(EB1_SEE_EMBEDDED_RE, desc, TRUE)
    THEN EB1_seeSplit(num, desc, url, MatchAll(EB1_SEE_EMBEDDED_RE, desc, TRUE))
    ELSE <<[num |-> num, desc |-> EB1_cleanDesc(EB1_withUrl(desc, url))]>>

\* Lines 172-252: the pairs of one "(See Attachment N - ...)" match.
EB1_seePairs(trimmed, m) ==
  EB1_seeRead(ParseInt(Group(trimmed, m, 1)),
              StripTrailingComma(Trim(Group(trimmed, m, 2))),
              EB1_urlOr(Trim(Group(trimmed, m, 3)), SubSeq(trimmed, m.e, Len(trimmed))))

RECURSIVE EB1_seeAll(_, _)
EB1_seeAll(trimmed, ms) ==
  IF ms = <<>> THEN <<>>
  ELSE EB1_seePairs(trimmed, Head(ms)) \o EB1_seeAll(trimmed, Tail(ms))

\* Lines 301-305.
EB1_embeddedDesc(part) ==
  LET p1 == ReplaceFirst(Cat(<<Lit(","), Star(Ws), Eol>>), Trim(part), FALSE, <<>>)
      p2 == ReplaceFirst(Cat(<<Lit("."), Star(Ws), Eol>>), p1, FALSE, <<>>)
  IN  Trim(ReplaceFirst(Cat(<<Cls(EB1_DASH_CHARS), Star(Ws), Eol>>), p2, FALSE, <<>>))

RECURSIVE EB1_enumEmbedded(_, _)
\* Lines 300-322: for (let i = 1; i < parts.length; i += 2), i counted from 2.
EB1_enumEmbedded(parts, i) ==
  IF i > Len(parts) THEN <<>>
  ELSE EB1_embWithUrl(ParseInt(parts[i]),
                      EB1_embeddedDesc(IF i + 1 <= Len(parts) THEN parts[i + 1] ELSE <<>>),
                      EB1_URL_IN_EMB_RE, TRUE)
         \o EB1_enumEmbedded(parts, i + 2)

\* Lines 289-297.
EB1_enumMainMatch(num, mainDesc, mm, url) ==
  IF mm.ok
    THEN EB1_mainItem(num, Trim(Without(mainDesc, mm)),
                      StripTrailingComma(Group(mainDesc, mm, 1)), url)
    ELSE EB1_mainItem(num, mainDesc, <<>>, url)

EB1_enumMain(num, mainDesc, url) ==
  EB1_enumMainMatch(num, mainDesc,
                    StrMatch(Cat(<<EB1_URL_IN_EMB_RE, Star(Ws), Eol>>), mainDesc, TRUE), url)

\* Lines 282-342: the description split by the chained attachments.
EB1_enumParts(num, desc, url, parts) ==
  IF Len(parts) > 1
    THEN <<EB1_enumMain(num, ReplaceFirst(Cat(<<Lit(","), Star(Ws), Eol>>), Trim(parts[1]),
                                          FALSE, <<>>), url)>>
           \o EB1_enumEmbedded(parts, 2)
    ELSE <<[num |-> num, desc |-> EB1_cleanDesc(EB1_withUrl(desc, url))]>>

EB1_enumRead(num, desc, url) ==
  EB1_enumParts(num, desc, url, Split(EB1_embeddedSplitPattern, desc, TRUE))

EB1_enumMatch(trimmed, m) ==
  IF ~m.ok THEN <<>>
  ELSE EB1_enumRead(ParseInt(Group(trimmed, m, 1)),
                    StripTrailingComma(Trim(Group(trimmed, m, 2))),
                    EB1_urlOr(Trim(Group(trimmed, m, 3)), trimmed))

\* Lines 262-345: the plain enumeration "(N) description".
EB1_enumPairs(trimmed) ==
  EB1_enumMatch(trimmed, StrMatch(EB1_ITEM_ENUM_RE, trimmed, TRUE))

\* The "(See Attachment ...)" matches and the plain enumeration together.
EB1_seeAndEnum(trimmed, see) == see \o EB1_enumPairs(trimmed)

\* Lines 167-346: without an attachment line, the "(See Attachment ...)"
\* matches, and without any of those the plain enumeration.
EB1_seeOrEnum(trimmed, see) == IF see # <<>> THEN see ELSE EB1_enumPairs(trimmed)

EB1_lineOrOther(trimmed, line) ==
  IF line # <<>> THEN line
  ELSE EB1_seeOrEnum(trimmed,
                     EB1_seeAll(trimmed, MatchAll(EB1_SEE_ATTACHMENT_RE, trimmed, TRUE)))

\* Lines 139-346: the recognizers in their order; the first that yields
\* anything is the only one used.
EB1_pairs(trimmed) == EB1_lineOrOther(trimmed, EB1_attachmentLine(trimmed))

EB1_parseAs(trimmed, header) ==
  [blank |-> trimmed = <<>>, header |-> header,
   title |-> IF header THEN EB1_sectionTitle(trimmed) ELSE <<>>,
   pairs |-> IF header THEN <<>> ELSE EB1_pairs(trimmed)]

EB1_parseTrimmed(trimmed) == EB1_parseAs(trimmed, EB1_isHeader(trimmed))

\* Everything extractEB1 reads from the text of one paragraph (lines 110-346).
EB1_parse(paragraph) == EB1_parseTrimmed(Trim(paragraph))

\* An iteration that gathers every citation under the first section that has
\* its number, whichever section is current.
EB1_paragraphMigrating(ctx, p) ==
  IF p.blank THEN ctx
  ELSE IF p.header THEN EB1_header(ctx, p.title)
  ELSE IF p.pairs = <<>> THEN ctx
  ELSE LET holders == {i \in 1..Len(ctx.groups) :
                         \E j \in 1..Len(ctx.groups[i].items) :
                           ctx.groups[i].items[j].num = p.pairs[1].num}
           k == IF holders = {} THEN KeyIndex(ctx.groups, ctx.currentSection)
                ELSE Min(holders)
       IN  [ctx EXCEPT !.groups[k].items = @ \o p.pairs]

\* Lines 109-347: one iteration of the loop over the paragraphs, p being what
\* the paragraph reads as.
EB1_paragraph(ctx, p) ==
  LET k == KeyIndex(ctx.groups, ctx.currentSection)
  IN  IF p.blank THEN ctx
      ELSE IF p.header THEN EB1_header(ctx, p.title)
      ELSE [ctx EXCEPT !.groups[k].items = @ \o p.pairs]

\* Lines 102-105.
EB1_start == [groups |-> <<[name |-> <<>>, items |-> <<>>]>>, currentSection |-> <<>>]

RECURSIVE EB1_sections(_)
EB1_sections(entries) ==
  IF entries = <<>> THEN <<>>
  ELSE LET deduped == EB1_dedupeBest(Head(entries).items)
       IN  (IF deduped # <<>> THEN <<[name |-> Head(entries).name, items |-> deduped]>>
            ELSE <<>>)
           \o EB1_sections(Tail(entries))

\* Lines 349-369: the final pass.  groups[''] is the first key of groups.
EB1_result(ctx) == EB1_sections(ctx.groups)

RECURSIVE EB1_loop(_, _)
EB1_loop(ctx, paragraphs) ==
  IF paragraphs = <<>> THEN ctx
  ELSE EB1_loop(EB1_paragraph(ctx, Head(paragraphs)), Tail(paragraphs))

(***************************************************************************)
(* "cover sheet"/lib/eb2-extractor.ts: the other copy of extractEB2, which *)
(* slices a paragraph at its "Attachment N -" anchors and orders the       *)
(* sections by their Roman numerals.  Its SECTION_RX (line 11) and the     *)
(* page reference expression of its cleanDesc (line 50) are those of       *)
(* cover-sheet/lib/eb2-extractor.ts.                                       *)
(***************************************************************************)
\* Line 13: /Attachment\s+(\d+)\s*[-...]\s*/gi
CS_ATTACH_ANCHOR_RX ==
  Cat(<<Lit("Attachment"), Plus(Ws), Cap(1, Plus(Dig)), Star(Ws), Cls(EB2_Dash), Star(Ws)>>)

\* Lines 17-19: romanMap[roman[i]] || 0
CS_romanMap(letter) ==
  CASE letter = "I" -> 1
    [] letter = "V" -> 5
    [] letter = "X" -> 10
    [] letter = "L" -> 50
    [] letter = "C" -> 100
    [] letter = "D" -> 500
    [] letter = "M" -> 1000
    [] OTHER -> 0

\* Lines 26-31: one letter, read from the right.
CS_romanStep(value, prevValue, total) ==
  IF value < prevValue THEN total - value ELSE total + value

RECURSIVE CS_romanFrom(_, _, _, _)
\* Lines 24-33: for (let i = roman.length - 1; i >= 0; i--), i counted from 1.
CS_romanFrom(roman, i, prevValue, total) ==
  IF i < 1 THEN total
  ELSE CS_romanFrom(roman, i - 1, CS_romanMap(roman[i]),
                    CS_romanStep(CS_romanMap(roman[i]), prevValue, total))

\* Lines 16-35.
CS_romanToNumber(roman) == CS_romanFrom(roman, Len(roman), 0, 0)

\* number | null
CS_null == [ok |-> FALSE, value |-> 0]
CS_number(value) == [ok |-> TRUE, value |-> value]

CS_romanOf(section, m) ==
  IF m.ok THEN CS_number(CS_romanToNumber(UpperCase(Group(section, m, 1)))) ELSE CS_null

\* Lines 38-44.
CS_extractRomanNumeral(section) ==
  CS_romanOf(section,
             StrMatch(Cat(<<Bol, Cap(1, Plus(Cls(EB2_Roman))), Lit(".")>>), section, TRUE))

\* Lines 46-62.
CS_cleanDesc(raw) ==
  LET d2 == ReplaceAll(EB2_PAGE_REF_RE, Trim(raw), TRUE, <<>>)
      d3 == ReplaceFirst(Cat(<<Lit(")"), Lit("."), Eol>>), d2, FALSE, <<".">>)
      d4 == ReplaceFirst(Cat(<<Lit(")"), Eol>>), d3, FALSE, <<>>)
  IN  EB2_endWithPeriod(Trim(d4))

\* Lines 98-110: the citation of one anchor; its description runs to the next
\* anchor, or to the end of the paragraph.
CS_anchorItem(trimmed, m, end) ==
  [num |-> ParseInt(Group(trimmed, m, 1)),
   desc |-> CS_cleanDesc(SubSeq(trimmed, m.e, end))]

RECURSIVE CS_anchorItems(_, _)
\* Lines 97-110 without the test of 102: the citation of every anchor.
CS_anchorItems(trimmed, ms) ==
  IF ms = <<>> THEN <<>>
  ELSE <<CS_anchorItem(trimmed, Head(ms),
                       IF Len(ms) > 1 THEN ms[2].b - 1 ELSE Len(trimmed))>>
         \o CS_anchorItems(trimmed, Tail(ms))

\* Line 83.
CS_isHeader(trimmed) ==
  Test(EB2_SECTION_RX, trimmed, TRUE) /\ ~Test(CONCLUSION_RE, trimmed, TRUE)

CS_parseAs(trimmed, header) ==
  [blank |-> trimmed = <<>>, header |-> header,
   name |-> IF header THEN Trim(CollapseWs(trimmed)) ELSE <<>>,
   anchors |-> IF header THEN <<>>
               ELSE CS_anchorItems(trimmed, MatchAll(CS_ATTACH_ANCHOR_RX, trimmed, TRUE))]

CS_parseTrimmed(trimmed) == CS_parseAs(trimmed, CS_isHeader(trimmed))

\* Everything this extractEB2 reads from the text of one paragraph (lines 80-110).
CS_parse(paragraph) == CS_parseTrimmed(Trim(paragraph))

\* Lines 84-89: a header.
CS_header(ctx, name) ==
  IF KeyIndex(ctx.bySec, name) = 0
    THEN [ctx EXCEPT
            !.currentSec = name,
            !.bySec = Append(@, [name |-> name, items |-> <<>>]),
            !.seenInSec =
               [k \in DOMAIN ctx.seenInSec \cup {name} |->
                  IF k = name THEN {} ELSE ctx.seenInSec[k]]]
    ELSE [ctx EXCEPT !.currentSec = name]

\* Lines 101-115: a number already seen in the current section is skipped.
CS_addItem(ctx, item) ==
  IF item.num \in ctx.seenInSec[ctx.currentSec] \/ item.desc = <<>> THEN ctx
  ELSE [ctx EXCEPT
          !.bySec[KeyIndex(ctx.bySec, ctx.currentSec)].items = Append(@, item),
          !.seenInSec[ctx.currentSec] = @ \cup {item.num}]

RECURSIVE CS_addItems(_, _)
CS_addItems(ctx, items) ==
  IF items = <<>> THEN ctx ELSE CS_addItems(CS_addItem(ctx, Head(items)), Tail(items))

\* Lines 78-117: one iteration of the loop over the paragraphs, p being what
\* the paragraph reads as.
CS_paragraph(ctx, p) ==
  IF p.blank THEN ctx
  ELSE IF p.header THEN CS_header(ctx, p.name)
  ELSE CS_addItems(ctx, p.anchors)

\* Lines 65-73: the state of a call before the loop; '' is the first key.
CS_start ==
  [bySec |-> <<[name |-> <<>>, items |-> <<>>]>>,
   seenInSec |-> [k \in {<<>>} |-> {}],
   currentSec |-> <<>>]

RECURSIVE CS_sorted(_)
\* Lines 120-126: the sections that have items, each sorted by number.
CS_sorted(entries) ==
  IF entries = <<>> THEN <<>>
  ELSE (IF Head(entries).items # <<>>
          THEN <<[name |-> Head(entries).name, items |-> SortByNum(Head(entries).items)]>>
          ELSE <<>>)
       \o CS_sorted(Tail(entries))

\* Lines 137-150: both sections have a Roman numeral (every key but '' was a
\* header, which starts with one), so the cases of one or no numeral, with
\* their localeCompare, are never reached.
CS_compareNumerals(numA, numB) ==
  IF numA.ok /\ numB.ok THEN numA.value - numB.value
  ELSE IF numA.ok THEN -1
  ELSE IF numB.ok THEN 1
  ELSE 0

\* Lines 129-151: the comparison of two sections.
CS_compare(a, b) ==
  IF a.name = <<>> THEN -1
  ELSE IF b.name = <<>> THEN 1
  ELSE CS_compareNumerals(CS_extractRomanNumeral(a.name), CS_extractRomanNumeral(b.name))

RECURSIVE CS_insertSection(_, _)
CS_insertSection(sections, sec) ==
  IF sections = <<>> THEN <<sec>>
  ELSE IF CS_compare(sec, Head(sections)) < 0 THEN <<sec>> \o sections
  ELSE <<Head(sections)>> \o CS_insertSection(Tail(sections), sec)

RECURSIVE CS_sortSections(_)
\* Line 129: sections.sort(...), a stable sort.
CS_sortSections(sections) ==
  IF sections = <<>> THEN <<>>
  ELSE CS_insertSection(CS_sortSections(SubSeq(sections, 1, Len(sections) - 1)),
                        sections[Len(sections)])

\* Lines 119-159: the final pass.
CS_result(ctx) == CS_sortSections(CS_sorted(ctx.bySec))

RECURSIVE CS_loop(_, _)
CS_loop(ctx, paragraphs) ==
  IF paragraphs = <<>> THEN ctx
  ELSE CS_loop(CS_paragraph(ctx, Head(paragraphs)), Tail(paragraphs))

(***************************************************************************)
(* The state machine.  A call of an extractor splits its text into the     *)
(* non-blank paragraphs (eb1-extractor.ts line 107, eb2-extractor.ts line  *)
(* 77) and reads them one by one; the paragraphs are drawn from Pool.      *)
(***************************************************************************)
Pool ==
  << <<"I", "I", ".", " ", "Ability">>,
     <<"I", "I", "I", ".", " ", "Merits">>,
     <<"I", "V", ".", " ", "CONCLUSION">>,
     <<"I", "I", ".", " ", "Ability", " ", "(", "Pages", " ", "1", "-", "2", ")">>,
     <<"EVIDENCE", " ", "OF", " ", "AWARDS">>,
     <<"EVIDENCE", " ", "OF", " ", "ROLE">>,
     <<"EVIDENCE", " ", "OF", " ", "AWARDS", " ", "(", "Pages", " ", "1", "ndash", "2", ")">>,
     <<"(", "1", ")", " ", "Short", " ", "desc", ".">>,
     <<"(", "1", ")", " ", "Short", " ", "desc", ",", " ", "available", " ", "at", ":", " ",
       "http://", "x">>,
     <<"(", "2", ")", " ", "Letter", ".">>,
     <<"(", "1", ")", " ", "Y", ",", " ", "Attachment", " ", "2", " ", "ndash", " ", "B">>,
     <<"(", "1", ")", " ", "pages", " ", "1", "-", "2", ".">>,
     <<"(", "1", ")", " ", "desc", ".", ".", ".">>,
     <<"(", "3", ")", " ", "Diploma", " ", "from", " ", "State", " ", "University", ",", " ",
       "available", " ", "at", ":", " ", "http://", "example", ".", "edu", "/", "diploma">>,
     <<"(", "See", " ", "Attachment", " ", "2", " ", "ndash", " ", "Press", ")">>,
     <<"(", "2", ")", " ", "Letter", ",", " ", "Attachment", " ", "3", " ", "-", " ",
       "Press", ",", " ", "available", " ", "at", ":", " ", "http://", "x">>,
     <<"I", ".", " ", "Introduction">>,
     <<"Narrative", " ", "about", " ", "my", " ", "Letter", ".">>,
     <<"(", "1", ")", " ", "Y", ",", " ", "Attachment", " ", "2", " ", "-">>,
     <<"(", "1", ")", " ", "Y", " ", "(", "See", " ", "Attachment", " ", "2", " ", "-", " ",
       "B", ")">>,
     <<"I", "I", ".", " ", "Ability", " ", "1", "2">>,
     <<"EVIDENCE", " ", "OF", " ", "AWARDS", " ", "(", "Pages", " ", "1", "-", "2", ")">>,
     <<"EVIDENCE", " ", "OF", " ", "CONCLUSION">> >>

RECURSIVE EB1_parseAll(_)
EB1_parseAll(paragraphs) ==
  IF paragraphs = <<>> THEN <<>>
  ELSE <<EB1_parse(Head(paragraphs))>> \o EB1_parseAll(Tail(paragraphs))

RECURSIVE EB2_parseAll(_)
EB2_parseAll(paragraphs) ==
  IF paragraphs = <<>> THEN <<>>
  ELSE <<EB2_parse(Head(paragraphs))>> \o EB2_parseAll(Tail(paragraphs))

RECURSIVE CS_parseAll(_)
CS_parseAll(paragraphs) ==
  IF paragraphs = <<>> THEN <<>>
  ELSE <<CS_parse(Head(paragraphs))>> \o CS_parseAll(Tail(paragraphs))

\* What each paragraph of the pool reads as, for each extractor.
EB1_parsed == EB1_parseAll(Pool)
EB2_parsed == EB2_parseAll(Pool)
CS_parsed == CS_parseAll(Pool)

\* The longest text of a call, in paragraphs.
MaxParas == 4

VARIABLES
  dialect,          \* the extractor that was called: "EB1", "EB2" (cover-sheet/lib)
                    \* or "CS" (the extractEB2 of "cover sheet"/lib)
  pc,               \* "loop" while the call reads paragraphs, "done" once it returned
  nread,            \* the number of paragraphs read
  para,             \* the paragraph read last (its index in Pool; 0 before the first)
  groups,           \* extractEB1: groups, in key insertion order
  currentSection,   \* extractEB1: currentSection
  bySec,            \* extractEB2, either copy: bySec, in key insertion order
  seenInSec,        \* extractEB2, either copy: seenInSec
  seenGlobally,     \* extractEB2: seenGlobally
  preSectionItems,  \* extractEB2: preSectionItems
  currentSec,       \* extractEB2, either copy: currentSec (<<>> is null, and '' in "CS")
  lastIndex,        \* eb2-extractor.ts: EMBEDDED_ATTACHMENT_RE.lastIndex
  result,           \* the value the call returned (<<>> before it returns)
  cited,            \* history: the citations read, each with the section current then
  ncalls,           \* repeated calls: the number of calls made
  last,             \* repeated calls: the last call, as [dialect, text, result]
  kept,             \* repeated calls: an earlier call, as [dialect, text, result]
  request,          \* route.ts: the form data of the request, as [file, type]
  handlerAt,        \* route.ts: the await POST is suspended at, "done" once it returned
  responses,        \* route.ts: the responses POST returned
  invoked,          \* route.ts: the extractor calls POST made, each with its text
  logged,           \* route.ts: what console.error was called with
  selectedFile,     \* page.tsx: the state `file` of Home
  extractorType,    \* page.tsx: the state extractorType
  loading,          \* page.tsx: the state loading
  shownResult,      \* page.tsx: the state `result`
  shownError,       \* page.tsx: the state `error`
  isDragging,       \* page.tsx: the state isDragging
  fetching,         \* page.tsx: the calls of handleSubmit suspended at an await
  resultOf          \* history: the file and case type the shown result was asked for

vars == <<dialect, pc, nread, para, groups, currentSection, bySec, seenInSec, seenGlobally,
          preSectionItems, currentSec, lastIndex, result, cited, ncalls, last, kept,
          request, handlerAt, responses, invoked, logged, selectedFile, extractorType,
          loading, shownResult, shownError, isDragging, fetching, resultOf>>

eb1Vars == <<groups, currentSection>>
eb2Vars == <<bySec, seenInSec, seenGlobally, preSectionItems, currentSec, lastIndex>>
callVars == <<ncalls, last, kept>>
postVars == <<request, handlerAt, responses, invoked, logged>>
homeVars == <<selectedFile, extractorType, loading, shownResult, shownError, isDragging,
              fetching, resultOf>>

EB1_ctx == [groups |-> groups, currentSection |-> currentSection]
EB2_ctx ==
  [bySec |-> bySec, seenInSec |-> seenInSec, seenGlobally |-> seenGlobally,
   preSectionItems |-> preSectionItems, currentSec |-> currentSec, lastIndex |-> lastIndex]
CS_ctx == [bySec |-> bySec, seenInSec |-> seenInSec, currentSec |-> currentSec]

NoCall == [dialect |-> "none", text |-> <<>>, result |-> <<>>]
NoRequest == [file |-> [kind |-> "null"], type |-> "null"]
\* null, as the value of the states file, result and error of Home.
NoFile == [kind |-> "null"]
NoResult == [kind |-> "null"]
NoError == [kind |-> "null"]

Init ==
  /\ dialect \in {"EB1", "EB2", "CS"}
  /\ pc = "loop"
  /\ nread = 0
  /\ para = 0
  /\ groups = EB1_start.groups
  /\ currentSection = EB1_start.currentSection
  /\ bySec = IF dialect = "CS" THEN CS_start.bySec ELSE EB2_start(0).bySec
  /\ seenInSec = IF dialect = "CS" THEN CS_start.seenInSec ELSE EB2_start(0).seenInSec
  /\ seenGlobally = EB2_start(0).seenGlobally
  /\ preSectionItems = EB2_start(0).preSectionItems
  /\ currentSec = EB2_start(0).currentSec
  /\ lastIndex = 0
  /\ result = <<>>
  /\ cited = {}
  /\ ncalls = 0
  /\ last = NoCall
  /\ kept = NoCall
  /\ request = NoRequest
  /\ handlerAt = "idle"
  /\ responses = <<>>
  /\ invoked = <<>>
  /\ logged = <<>>
  /\ selectedFile = NoFile
  /\ extractorType = "eb1"
  /\ loading = FALSE
  /\ shownResult = NoResult
  /\ shownError = NoError
  /\ isDragging = FALSE
  /\ fetching = <<>>
  /\ resultOf = NoRequest

\* The citations a list of found items makes while section sec is current.
Citations(items, sec) ==
  {[num |-> items[i].num, url |-> IncludesHttp(items[i].desc), sec |-> sec] :
     i \in 1..Len(items)}

\* The citations extractEB2's recognizers read in a paragraph.
EB2_candidates(p) ==
  IF p.blank \/ p.header THEN <<>>
  ELSE IF p.see # <<>> THEN p.see
  ELSE IF ~p.enum.ok THEN <<>>
  ELSE IF EB2_testEmbedded(p, 0).ok THEN p.enum.chained \o <<p.enum.main>>
  ELSE <<p.enum.plain>>

\* The citations extractEB1's recognizers read in a paragraph.
EB1_candidates(p) == IF p.blank \/ p.header THEN <<>> ELSE p.pairs

\* extractEB1 reads the next paragraph of its text: paragraph k of the pool,
\* which reads as p.
EB1_ReadAs(k, p, next) ==
  /\ groups' = next.groups
  /\ currentSection' = next.currentSection
  /\ nread' = nread + 1
  /\ para' = k
  /\ cited' = cited \cup Citations(EB1_candidates(p), currentSection)
  /\ UNCHANGED <<dialect, pc, result, eb2Vars, callVars, postVars, homeVars>>

EB1_ReadParsed(k, p) == EB1_ReadAs(k, p, EB1_paragraph(EB1_ctx, p))

EB1_Read(k) ==
  /\ dialect = "EB1"
  /\ pc = "loop"
  /\ nread < MaxParas
  /\ EB1_ReadParsed(k, EB1_parsed[k])

\* extractEB1 has read its text and returns.
EB1_Return ==
  /\ dialect = "EB1"
  /\ pc = "loop"
  /\ result' = EB1_result(EB1_ctx)
  /\ pc' = "done"
  /\ UNCHANGED <<dialect, nread, para, cited, eb1Vars, eb2Vars, callVars, postVars, homeVars>>

\* extractEB2 reads the next paragraph of its text: paragraph k of the pool,
\* which reads as p.
EB2_ReadAs(k, p, next) ==
  /\ bySec' = next.bySec
  /\ seenInSec' = next.seenInSec
  /\ seenGlobally' = next.seenGlobally
  /\ preSectionItems' = next.preSectionItems
  /\ currentSec' = next.currentSec
  /\ lastIndex' = next.lastIndex
  /\ nread' = nread + 1
  /\ para' = k
  /\ cited' = cited \cup Citations(EB2_candidates(p), currentSec)
  /\ UNCHANGED <<dialect, pc, result, eb1Vars, callVars, postVars, homeVars>>

EB2_ReadParsed(k, p) == EB2_ReadAs(k, p, EB2_paragraph(EB2_ctx, p))

EB2_Read(k) ==
  /\ dialect = "EB2"
  /\ pc = "loop"
  /\ nread < MaxParas
  /\ EB2_ReadParsed(k, EB2_parsed[k])

\* extractEB2 has read its text and returns.
EB2_Return ==
  /\ dialect = "EB2"
  /\ pc = "loop"
  /\ result' = EB2_result(EB2_ctx)
  /\ pc' = "done"
  /\ UNCHANGED <<dialect, nread, para, cited, eb1Vars, eb2Vars, callVars, postVars, homeVars>>

\* The citations the other extractEB2 reads in a paragraph.
CS_candidates(p) == IF p.blank \/ p.header THEN <<>> ELSE p.anchors

\* The extractEB2 of "cover sheet"/lib reads the next paragraph of its text:
\* paragraph k of the pool, which reads as p.
CS_ReadAs(k, p, next) ==
  /\ bySec' = next.bySec
  /\ seenInSec' = next.seenInSec
  /\ currentSec' = next.currentSec
  /\ nread' = nread + 1
  /\ para' = k
  /\ cited' = cited \cup Citations(CS_candidates(p), currentSec)
  /\ UNCHANGED <<dialect, pc, result, eb1Vars, seenGlobally, preSectionItems, lastIndex,
                 callVars, postVars, homeVars>>

CS_ReadParsed(k, p) == CS_ReadAs(k, p, CS_paragraph(CS_ctx, p))

CS_Read(k) ==
  /\ dialect = "CS"
  /\ pc = "loop"
  /\ nread < MaxParas
  /\ CS_ReadParsed(k, CS_parsed[k])

\* The extractEB2 of "cover sheet"/lib has read its text and returns.
CS_Return ==
  /\ dialect = "CS"
  /\ pc = "loop"
  /\ result' = CS_result(CS_ctx)
  /\ pc' = "done"
  /\ UNCHANGED <<dialect, nread, para, cited, eb1Vars, eb2Vars, callVars, postVars, homeVars>>

Next ==
  \/ \E k \in DOMAIN Pool : EB1_Read(k)
  \/ EB1_Return
  \/ \E k \in DOMAIN Pool : EB2_Read(k)
  \/ EB2_Return
  \/ \E k \in DOMAIN Pool : CS_Read(k)
  \/ CS_Return

Spec == Init /\ [][Next]_vars

(***************************************************************************)
(* Repeated calls in one process.  The only state of the modules that a    *)
(* call changes is the lastIndex of eb2-extractor.ts's global              *)
(* EMBEDDED_ATTACHMENT_RE, which RegExp.prototype.test moves (line 176);   *)
(* the other global expressions are used by matchAll alone, which works on *)
(* a copy.  A call is taken as one step here, on a text of CallTexts.      *)
(***************************************************************************)
\* The texts of the calls, each a sequence of paragraphs of the pool.
CallTexts ==
  {<<11>>, <<1, 11>>, <<8>>, <<5, 8, 11>>, <<10, 6, 8, 5, 9, 6, 13>>, <<5, 6, 8>>,
   <<6, 8, 5, 10, 6, 12>>, <<8, 13>>, <<1, 8, 11>>}

\* The number of calls made in one process.
MaxCalls == 3

RECURSIVE ParsedText(_, _)
\* What the paragraphs of a text read as.
ParsedText(table, text) ==
  IF text = <<>> THEN <<>> ELSE <<table[Head(text)]>> \o ParsedText(table, Tail(text))

InitCalls ==
  /\ dialect = "none"
  /\ pc = "idle"
  /\ nread = 0
  /\ para = 0
  /\ groups = EB1_start.groups
  /\ currentSection = EB1_start.currentSection
  /\ bySec = EB2_start(0).bySec
  /\ seenInSec = EB2_start(0).seenInSec
  /\ seenGlobally = EB2_start(0).seenGlobally
  /\ preSectionItems = EB2_start(0).preSectionItems
  /\ currentSec = EB2_start(0).currentSec
  /\ lastIndex = 0
  /\ result = <<>>
  /\ cited = {}
  /\ ncalls = 0
  /\ last = NoCall
  /\ kept = NoCall
  /\ request = NoRequest
  /\ handlerAt = "idle"
  /\ responses = <<>>
  /\ invoked = <<>>
  /\ logged = <<>>
  /\ selectedFile = NoFile
  /\ extractorType = "eb1"
  /\ loading = FALSE
  /\ shownResult = NoResult
  /\ shownError = NoError
  /\ isDragging = FALSE
  /\ fetching = <<>>
  /\ resultOf = NoRequest

\* A call returned `res`; the call before it may be the one that is kept.
Called(name, text, res) ==
  /\ ncalls' = ncalls + 1
  /\ last' = [dialect |-> name, text |-> text, result |-> res]
  /\ kept' \in {kept, last}
  /\ UNCHANGED <<dialect, pc, nread, para, result, cited, eb1Vars, bySec, seenInSec,
                 seenGlobally, preSectionItems, currentSec, postVars, homeVars>>

\* extractEB1(text)
CallEB1(text) ==
  /\ ncalls < MaxCalls
  /\ Called("EB1", text, EB1_result(EB1_loop(EB1_start, ParsedText(EB1_parsed, text))))
  /\ UNCHANGED lastIndex

EB2_CalledWith(text, end) ==
  /\ Called("EB2", text, EB2_result(end))
  /\ lastIndex' = end.lastIndex

\* extractEB2(text) of cover-sheet/lib, which starts with the lastIndex the
\* call before left.
CallEB2(text) ==
  /\ ncalls < MaxCalls
  /\ EB2_CalledWith(text, EB2_loop(EB2_start(lastIndex), ParsedText(EB2_parsed, text)))

\* extractEB2(text) of "cover sheet"/lib
CallCS(text) ==
  /\ ncalls < MaxCalls
  /\ Called("CS", text, CS_result(CS_loop(CS_start, ParsedText(CS_parsed, text))))
  /\ UNCHANGED lastIndex

NextCalls ==
  \/ \E text \in CallTexts : CallEB1(text)
  \/ \E text \in CallTexts : CallEB2(text)
  \/ \E text \in CallTexts : CallCS(text)

SpecCalls == InitCalls /\ [][NextCalls]_vars

(***************************************************************************)
(* The POST handler of app/api/extract/route.ts.  The code between two     *)
(* awaits runs as one step; an awaited call resolves or rejects, and a     *)
(* rejection or a throw anywhere in the try block lands in the one catch.  *)
(* The upload's name is a sequence of characters; the text mammoth reads   *)
(* from a document is a sequence of paragraphs of the pool.                *)
(***************************************************************************)
\* String.prototype.endsWith
EndsWith(str, suffix) ==
  /\ Len(str) >= Len(suffix)
  /\ SubSeq(str, Len(str) - Len(suffix) + 1, Len(str)) = suffix

DotDocx == <<".", "d", "o", "c", "x">>

\* The raw texts of the documents: result.value of mammoth.extractRawText.
DocTexts == {<<>>, <<8>>, <<5, 8>>, <<1, 10, 16>>}

\* The names of the uploads.
FileNames ==
  { <<"a">> \o DotDocx, DotDocx, <<"a", ".", "d", "o", "c">>,
    <<"a", ".", "D", "O", "C", "X">>, <<"a">> \o DotDocx \o <<".", "b">> }

\* What the uploads hold: a document with its raw text, or no document.
Docs == {[docx |-> FALSE, value |-> <<>>]} \cup {[docx |-> TRUE, value |-> t] : t \in DocTexts}

\* formData.get('file'): null when the field is missing, a string when the
\* field is not a file, the File otherwise.
Files ==
  {[kind |-> "null"], [kind |-> "string", value |-> <<>>], [kind |-> "string", value |-> <<"a">>]}
    \cup {[kind |-> "File", name |-> n, doc |-> d] : n \in FileNames, d \in Docs}

\* formData.get('type')
Types == {"eb1", "eb2", "null"}

\* !file
Falsy(upload) ==
  upload.kind = "null" \/ (upload.kind = "string" /\ upload.value = <<>>)

\* Lines 14-17.
NoFileResponse == [status |-> 400, body |-> [error |-> "No file provided"]]
\* Lines 21-24.
NotDocxResponse == [status |-> 400, body |-> [error |-> "Only .docx files are supported"]]
\* A response that reports a success and an error at once.
SuccessWithError ==
  [status |-> 500, body |-> [success |-> TRUE, error |-> "Failed to extract attachments"]]
\* Lines 50-53.
ErrorResponse == [status |-> 500, body |-> [error |-> "Failed to extract attachments"]]
\* Lines 43-47: NextResponse.json without a status answers 200.
SuccessResponse(attachments, filename) ==
  [status |-> 200,
   body |-> [success |-> TRUE, attachments |-> attachments, filename |-> filename]]

extractVars == <<dialect, pc, nread, para, result, cited, eb1Vars, eb2Vars>>

InitPost ==
  /\ dialect = "none"
  /\ pc = "idle"
  /\ nread = 0
  /\ para = 0
  /\ groups = EB1_start.groups
  /\ currentSection = EB1_start.currentSection
  /\ bySec = EB2_start(0).bySec
  /\ seenInSec = EB2_start(0).seenInSec
  /\ seenGlobally = EB2_start(0).seenGlobally
  /\ preSectionItems = EB2_start(0).preSectionItems
  /\ currentSec = EB2_start(0).currentSec
  /\ lastIndex = 0
  /\ result = <<>>
  /\ cited = {}
  /\ ncalls = 0
  /\ last = NoCall
  /\ kept = NoCall
  /\ request \in [file : Files, type : Types]
  /\ handlerAt = "formData"
  /\ responses = <<>>
  /\ invoked = <<>>
  /\ logged = <<>>
  /\ selectedFile = NoFile
  /\ extractorType = "eb1"
  /\ loading = FALSE
  /\ shownResult = NoResult
  /\ shownError = NoError
  /\ isDragging = FALSE
  /\ fetching = <<>>
  /\ resultOf = NoRequest

\* return NextResponse.json(...)
Returns(response) ==
  /\ responses' = Append(responses, response)
  /\ handlerAt' = "done"

\* Lines 48-54: the catch block.
Caught(error) ==
  /\ logged' = Append(logged, error)
  /\ Returns(ErrorResponse)
  /\ UNCHANGED <<request, invoked>>

\* Lines 13-27, once the form data are there: the two tests, then the call of
\* file.arrayBuffer().  The name of a string is undefined, and reading
\* endsWith of undefined throws.
POST_validate(upload) ==
  IF Falsy(upload) THEN Returns(NoFileResponse) /\ UNCHANGED <<request, invoked, logged>>
  ELSE IF upload.kind = "string" THEN Caught("TypeError")
  ELSE IF ~EndsWith(upload.name, DotDocx)
    THEN Returns(NotDocxResponse) /\ UNCHANGED <<request, invoked, logged>>
  ELSE handlerAt' = "arrayBuffer" /\ UNCHANGED <<request, responses, invoked, logged>>

\* Line 9: await request.formData() resolves or rejects.
POST_formData(rejected) ==
  /\ handlerAt = "formData"
  /\ IF rejected THEN Caught("formData") ELSE POST_validate(request.file)
  /\ UNCHANGED <<extractVars, callVars, homeVars>>

\* Lines 28-32: await file.arrayBuffer() resolves or rejects; Buffer.from and
\* the call of mammoth.extractRawText.
POST_arrayBuffer(rejected) ==
  /\ handlerAt = "arrayBuffer"
  /\ IF rejected THEN Caught("arrayBuffer")
     ELSE handlerAt' = "extractRawText" /\ UNCHANGED <<request, responses, invoked, logged>>
  /\ UNCHANGED <<extractVars, callVars, homeVars>>

\* Lines 36-41: the extractor the type selects.
POST_extractor(type) == IF type = "eb2" THEN "EB2" ELSE "EB1"

POST_attachments(type, value, start) ==
  IF type = "eb2"
    THEN EB2_result(EB2_loop(EB2_start(start), ParsedText(EB2_parsed, value)))
    ELSE EB1_result(EB1_loop(EB1_start, ParsedText(EB1_parsed, value)))

\* extractEB1(text) or extractEB2(text) returned or threw; lines 43-47.
POST_extracted(threw, attachments) ==
  IF threw THEN logged' = Append(logged, "extractor") /\ Returns(ErrorResponse)
  ELSE Returns(SuccessResponse(attachments, request.file.name)) /\ UNCHANGED logged

\* Lines 32-47: await mammoth.extractRawText resolves with the raw text of
\* the document or rejects; the extractor is called on the text and returns
\* or throws.
POST_extractRawText(rejected, threw) ==
  /\ handlerAt = "extractRawText"
  /\ IF rejected \/ ~request.file.doc.docx THEN Caught("extractRawText")
     ELSE /\ invoked' = Append(invoked, [extractor |-> POST_extractor(request.type),
                                         text |-> request.file.doc.value])
          /\ POST_extracted(threw,
               POST_attachments(request.type, request.file.doc.value, lastIndex))
          /\ UNCHANGED request
  /\ UNCHANGED <<extractVars, callVars, homeVars>>

NextPost ==
  \/ \E rejected \in BOOLEAN : POST_formData(rejected)
  \/ \E rejected \in BOOLEAN : POST_arrayBuffer(rejected)
  \/ \E rejected, threw \in BOOLEAN : POST_extractRawText(rejected, threw)

SpecPost == InitPost /\ [][NextPost]_vars

(***************************************************************************)
(* The upload page: the component Home of app/page.tsx.  Each handler runs *)
(* to its end or to its next await in one step; a call of handleSubmit     *)
(* that is suspended at an await keeps the file and the case type it was   *)
(* called with.                                                            *)
(***************************************************************************)

\* The files the user can pick or drop.
Uploads ==
  {[kind |-> "File", name |-> n, doc |-> d] :
     n \in {<<"a">> \o DotDocx, <<"a", ".", "d", "o", "c">>},
     d \in {[docx |-> FALSE, value |-> <<>>], [docx |-> TRUE, value |-> <<8>>],
            [docx |-> TRUE, value |-> <<5, 8>>]}}

\* e.target.files?.[0] and e.dataTransfer.files?.[0]: a file or nothing.
Picked == Uploads \cup {NoFile}

\* The values of the two radio buttons.
CaseTypes == {"eb1", "eb2"}

\* The responses POST can give to a request.
POST_responses(upload, type) ==
  {ErrorResponse} \cup
    (IF Falsy(upload) THEN {NoFileResponse}
     ELSE IF upload.kind = "string" THEN {}
     ELSE IF ~EndsWith(upload.name, DotDocx) THEN {NotDocxResponse}
     ELSE IF ~upload.doc.docx THEN {}
     ELSE {SuccessResponse(POST_attachments(type, upload.doc.value, 0), upload.name)})

\* The requests the page can send, each with a response of the server to it.
Exchanges ==
  UNION {{[file |-> f, type |-> t, response |-> r] : r \in POST_responses(f, t)} :
           f \in Uploads, t \in CaseTypes}

\* response.ok
Ok(response) == response.status \in 200..299

\* data.error || 'Failed to extract attachments'
ErrorOf(data) ==
  IF "error" \in DOMAIN data /\ data.error # "" THEN data.error
  ELSE "Failed to extract attachments"

Message(text) == [kind |-> "message", message |-> text]
Data(data) == [kind |-> "data", data |-> data]

InitHome ==
  /\ dialect = "none"
  /\ pc = "idle"
  /\ nread = 0
  /\ para = 0
  /\ groups = EB1_start.groups
  /\ currentSection = EB1_start.currentSection
  /\ bySec = EB2_start(0).bySec
  /\ seenInSec = EB2_start(0).seenInSec
  /\ seenGlobally = EB2_start(0).seenGlobally
  /\ preSectionItems = EB2_start(0).preSectionItems
  /\ currentSec = EB2_start(0).currentSec
  /\ lastIndex = 0
  /\ result = <<>>
  /\ cited = {}
  /\ ncalls = 0
  /\ last = NoCall
  /\ kept = NoCall
  /\ request = NoRequest
  /\ handlerAt = "done"
  /\ responses = <<>>
  /\ invoked = <<>>
  /\ logged = <<>>
  /\ selectedFile = NoFile
  /\ extractorType = "eb1"
  /\ loading = FALSE
  /\ shownResult = NoResult
  /\ shownError = NoError
  /\ isDragging = FALSE
  /\ fetching = <<>>
  /\ resultOf = NoRequest

serverVars == <<extractVars, callVars, postVars>>

\* Lines 179-185.
handleFileChange(picked) ==
  /\ IF picked # NoFile
       THEN /\ selectedFile' = picked
            /\ shownError' = NoError
            /\ shownResult' = NoResult
            /\ resultOf' = NoRequest
       ELSE UNCHANGED <<selectedFile, shownError, shownResult, resultOf>>
  /\ UNCHANGED <<extractorType, loading, isDragging, fetching, serverVars>>

\* Lines 187-191.
handleDragEnter ==
  /\ isDragging' = TRUE
  /\ UNCHANGED <<selectedFile, extractorType, loading, shownResult, shownError, fetching,
                 resultOf, serverVars>>

\* Lines 193-197.
handleDragLeave ==
  /\ isDragging' = FALSE
  /\ UNCHANGED <<selectedFile, extractorType, loading, shownResult, shownError, fetching,
                 resultOf, serverVars>>

\* Lines 204-220.
handleDrop(dropped) ==
  /\ isDragging' = FALSE
  /\ IF dropped # NoFile
       THEN IF EndsWith(dropped.name, DotDocx)
              THEN /\ selectedFile' = dropped
                   /\ shownError' = NoError
                   /\ shownResult' = NoResult
                   /\ resultOf' = NoRequest
              ELSE /\ shownError' = Message("Please upload a .docx file")
                   /\ UNCHANGED <<selectedFile, shownResult, resultOf>>
       ELSE UNCHANGED <<selectedFile, shownError, shownResult, resultOf>>
  /\ UNCHANGED <<extractorType, loading, fetching, serverVars>>

\* Lines 295 and 305: the onChange of the radio buttons.
setExtractorType(type) ==
  /\ extractorType' = type
  /\ UNCHANGED <<selectedFile, loading, shownResult, shownError, isDragging, fetching,
                 resultOf, serverVars>>

\* Line 368: disabled={!file || loading}
SubmitDisabled == selectedFile = NoFile \/ loading

\* Lines 222-238: the form is submitted; handleSubmit runs to await fetch.
handleSubmit ==
  /\ ~SubmitDisabled
  /\ IF selectedFile = NoFile
       THEN UNCHANGED <<loading, shownError, fetching>>
       ELSE /\ loading' = TRUE
            /\ shownError' = NoError
            /\ fetching' = Append(fetching, [file |-> selectedFile, type |-> extractorType,
                                             at |-> "fetch", response |-> NoResult])
  /\ UNCHANGED <<selectedFile, extractorType, shownResult, isDragging, resultOf, serverVars>>

Resumed(seq, i) == SubSeq(seq, 1, i - 1) \o SubSeq(seq, i + 1, Len(seq))

\* Lines 246-250: the catch block and the finally block.
handleSubmit_catch(i, text) ==
  /\ shownError' = Message(text)
  /\ loading' = FALSE
  /\ fetching' = Resumed(fetching, i)
  /\ UNCHANGED <<shownResult, resultOf>>

\* Lines 234-239: await fetch(...) rejects, or resolves with a response of
\* the server to the request; handleSubmit runs to await response.json().
handleSubmit_fetch(i, rejected) ==
  /\ i \in DOMAIN fetching
  /\ fetching[i].at = "fetch"
  /\ IF rejected
       THEN handleSubmit_catch(i, "Failed to fetch")
       ELSE /\ \E sent \in Exchanges :
                 /\ sent.file = fetching[i].file
                 /\ sent.type = fetching[i].type
                 /\ fetching' = [fetching EXCEPT ![i].at = "json",
                                                 ![i].response = sent.response]
            /\ UNCHANGED <<loading, shownError, shownResult, resultOf>>
  /\ UNCHANGED <<selectedFile, extractorType, isDragging, serverVars>>

\* Lines 239-250: await response.json() rejects or resolves with the body;
\* handleSubmit runs to its end.
handleSubmit_json(i, rejected) ==
  /\ i \in DOMAIN fetching
  /\ fetching[i].at = "json"
  /\ IF rejected
       THEN handleSubmit_catch(i, "Unexpected end of JSON input")
       ELSE IF ~Ok(fetching[i].response)
         THEN handleSubmit_catch(i, ErrorOf(fetching[i].response.body))
         ELSE /\ shownResult' = Data(fetching[i].response.body)
              /\ resultOf' = [file |-> fetching[i].file, type |-> fetching[i].type]
              /\ loading' = FALSE
              /\ fetching' = Resumed(fetching, i)
              /\ UNCHANGED shownError
  /\ UNCHANGED <<selectedFile, extractorType, isDragging, serverVars>>

FetchSettles ==
  \E i \in DOMAIN fetching, rejected \in BOOLEAN : handleSubmit_fetch(i, rejected)

JsonSettles == \E i \in DOMAIN fetching, rejected \in BOOLEAN : handleSubmit_json(i, rejected)

NextHome ==
  \/ \E picked \in Picked : handleFileChange(picked)
  \/ handleDragEnter
  \/ handleDragLeave
  \/ \E dropped \in Picked : handleDrop(dropped)
  \/ \E type \in CaseTypes : setExtractorType(type)
  \/ handleSubmit
  \/ FetchSettles
  \/ JsonSettles

SpecHome == InitHome /\ [][NextHome]_vars

\* The promises of fetch and of response.json() settle.
SpecHomeFair == SpecHome /\ WF_vars(FetchSettles) /\ WF_vars(JsonSettles)
(***************************************************************************)
(* The properties.                                                         *)
(***************************************************************************)
\* The numbers listed under section i of a grouped result.
SectionNums(res, i) == ItemNums(res[i].items)

\* No number is listed under two sections.
DisjointSections(res) ==
  \A i, j \in 1..Len(res) : i # j => SectionNums(res, i) \cap SectionNums(res, j) = {}

\* No number is listed twice under one section.
NoRepeatInSection(res) ==
  \A i \in 1..Len(res) : \A a, b \in 1..Len(res[i].items) :
    a # b => res[i].items[a].num # res[i].items[b].num

\* Some section of a grouped result lists the number.
Listed(res, num) == \E i \in 1..Len(res) : num \in SectionNums(res, i)

\* C1 as stated: in the result of either extractor every number appears in
\* exactly one section's item list, the pre-section bucket included.
C1_OneSectionPerNumber ==
  pc = "done" => DisjointSections(result) /\ NoRepeatInSection(result)

\* C1 amended: in the result of extractEB2 every number appears in exactly
\* one section's item list; in the result of extractEB1 a number appears at
\* most once in each section's list (it may appear under several sections).
C1_OneSectionPerNumberEB2 ==
  pc = "done" =>
    /\ NoRepeatInSection(result)
    /\ dialect = "EB2" => DisjointSections(result)

\* extractEB2 returned, a number was cited under two different sections and
\* the result lists it.
C1_CitedInTwoSections ==
  /\ pc = "done"
  /\ dialect = "EB2"
  /\ \E a, b \in cited : a.num = b.num /\ a.sec # b.sec /\ Listed(result, a.num)

\* C2: within each section of a result the items are strictly increasing by
\* number, whatever the order and number of the citations.
C2_StrictlyIncreasing ==
  pc = "done" =>
    \A i \in 1..Len(result) : \A k \in 1..(Len(result[i].items) - 1) :
      result[i].items[k].num < result[i].items[k + 1].num

\* extractEB2 returned a section whose numbers were cited in descending order.
C2_CitedOutOfOrder ==
  /\ pc = "done"
  /\ dialect = "EB2"
  /\ \E i \in 1..Len(bySec) :
       /\ Len(bySec[i].items) >= 2
       /\ bySec[i].items[1].num > bySec[i].items[2].num
       /\ \E j \in 1..Len(result) :
            result[j].name = bySec[i].name /\ Len(result[j].items) >= 2

\* The items of a grouped result.
ItemsOf(res) ==
  UNION {{res[i].items[k] : k \in 1..Len(res[i].items)} : i \in 1..Len(res)}

\* C3 as stated: when a number was cited once with a URL in its description
\* and once without, in either order and anywhere in the document, every
\* description the result keeps for the number carries a URL (extractEB1 and
\* the extractEB2 of cover-sheet/lib).
C3_UrlPreferred ==
  (pc = "done" /\ dialect \in {"EB1", "EB2"}) =>
    \A a, b \in cited :
      (a.num = b.num /\ a.url /\ ~b.url) =>
        \A item \in ItemsOf(result) : item.num = a.num => IncludesHttp(item.desc)

\* A page-range parenthetical at the end of a line, such as "(Pages 17-26)".
PageRangeTail ==
  Cat(<<Lit("("), Cls({"Page", "Pages"}), Star(Ws),
        Plus(Cls(Digit \cup EB2_Dash \cup {","} \cup Space)), Lit(")"), Star(Ws), Eol>>)

\* A line with CONCLUSION in it, or with a page-range parenthetical at its end.
NotAHeading(line) == Test(CONCLUSION_RE, line, TRUE) \/ Test(PageRangeTail, line, TRUE)

\* The paragraphs of the pool that match the header grammar of extractEB1,
\* and of extractEB2, and may not become a section header.
RejectableEB1 ==
  {k \in DOMAIN Pool :
     Test(EB1_SECTION_LINE_RE, Trim(Pool[k]), TRUE) /\ NotAHeading(Trim(Pool[k]))}
RejectableEB2 ==
  {k \in DOMAIN Pool :
     Test(EB2_SECTION_RX, Trim(Pool[k]), TRUE) /\ NotAHeading(Trim(Pool[k]))}

\* The section keys an extractor holds.
KeysOf(obj) == {obj[i].name : i \in 1..Len(obj)}

\* C4 as stated: reading a paragraph that matches the header grammar but
\* contains CONCLUSION, or ends in a page-range parenthetical, changes neither
\* the current section nor the section keys, in every extractor.
C4_NeverAHeader ==
  [][(nread' = nread + 1) =>
       /\ (dialect = "EB1" /\ para' \in RejectableEB1) =>
            (currentSection' = currentSection /\ KeysOf(groups') = KeysOf(groups))
       /\ (dialect \in {"EB2", "CS"} /\ para' \in RejectableEB2) =>
            (currentSec' = currentSec /\ KeysOf(bySec') = KeysOf(bySec))]_vars

\* C5 as stated: the result of extractEB2 (either copy) lists the pre-section
\* bucket first and then the sections in ascending order of their Roman
\* numerals, whatever the order the headings were read in.
C5_RomanOrder ==
  (pc = "done" /\ dialect \in {"EB2", "CS"}) =>
    \A i, j \in 1..Len(result) : i < j => CS_compare(result[i], result[j]) <= 0

\* C7: in the extractEB2 of cover-sheet/lib a number that is listed under a
\* section stays listed under it and is never listed under any other section,
\* neither during the pass nor in the result.
C7_FirstSectionWins ==
  [][dialect = "EB2" =>
       \A i \in 1..Len(bySec) : \A n \in ItemNums(bySec[i].items) :
         /\ n \in ItemNums(bySec'[i].items)
         /\ \A j \in 1..Len(bySec') : j # i => n \notin ItemNums(bySec'[j].items)
         /\ \A j \in 1..Len(result') :
              n \in ItemNums(result'[j].items) => result'[j].name = bySec[i].name]_vars

\* extractEB2 returned after a number that one section lists was cited again
\* while another section was current.
C7_CitedAgainElsewhere ==
  /\ pc = "done"
  /\ dialect = "EB2"
  /\ \E c \in cited :
       /\ c.sec # <<>>
       /\ c.num \in DOMAIN seenGlobally
       /\ seenGlobally[c.num] # c.sec
       /\ \E j \in 1..Len(result) :
            c.num \in ItemNums(result[j].items) /\ result[j].name = seenGlobally[c.num]

\* C8 as stated: in the extractEB2 of cover-sheet/lib a number cited before
\* any header and cited again inside a section is listed under a section of
\* the result and not under the pre-section key ''.
C8_PreSectionMigrates ==
  (pc = "done" /\ dialect = "EB2") =>
    \A a, b \in cited :
      (a.num = b.num /\ a.sec = <<>> /\ b.sec # <<>>) =>
        \A j \in 1..Len(result) :
          a.num \in ItemNums(result[j].items) => result[j].name # <<>>

\* C9 as stated: no item of a result has an empty description (extractEB1 and
\* the extractEB2 of cover-sheet/lib).
C9_NoEmptyDescription ==
  (pc = "done" /\ dialect \in {"EB1", "EB2"}) =>
    \A item \in ItemsOf(result) : item.desc # <<>>

\* The description ends in a URL (https?:\/\/\S+ up to its end).
EndsInUrl(desc) ==
  \E i \in 1..(Len(desc) - 1) :
    desc[i] \in UrlScheme /\ \A j \in (i + 1)..Len(desc) : desc[j] \notin Space

\* The description ends in a URL without a period after it, or in one period.
WellTerminated(desc) ==
  \/ EndsInUrl(desc) /\ desc[Len(desc)] # "."
  \/ /\ ~EndsInUrl(desc)
     /\ Len(desc) >= 1
     /\ desc[Len(desc)] = "."
     /\ (Len(desc) >= 2 => desc[Len(desc) - 1] # ".")

\* The paragraph "(3) Diploma from State University, available at:
\* http://example.edu/diploma" and the description it is to yield.
DiplomaParagraph ==
  <<"(", "3", ")", " ", "Diploma", " ", "from", " ", "State", " ", "University", ",", " ",
    "available", " ", "at", ":", " ", "http://", "example", ".", "edu", "/", "diploma">>
DiplomaDesc ==
  <<"Diploma", " ", "from", " ", "State", " ", "University", ",", " ",
    "available", " ", "at", " ", "http://", "example", ".", "edu", "/", "diploma">>

\* C10 as stated: every description of a result ends in a URL with no period
\* after it, or in exactly one period, and the diploma paragraph alone yields
\* the diploma description (extractEB1 and the extractEB2 of cover-sheet/lib;
\* the empty descriptions, which C9 is about, are left aside).
C10_TerminalPunctuation ==
  (pc = "done" /\ dialect \in {"EB1", "EB2"}) =>
    /\ \A item \in ItemsOf(result) : item.desc # <<>> => WellTerminated(item.desc)
    /\ (nread = 1 /\ para # 0 /\ Pool[para] = DiplomaParagraph) =>
         result = <<[name |-> <<>>, items |-> <<[num |-> 3, desc |-> DiplomaDesc]>>]>>

\* C6: two calls of one extractor on one text in one process, whatever calls
\* lie between them, return equal results: the same section keys in the same
\* order, with the same items.
C6_SameResultEveryCall ==
  (kept.dialect = last.dialect /\ kept.text = last.text) => kept.result = last.result

\* extractEB2 was called twice on a text with a chained attachment, which
\* moves lastIndex, with a call of another extractor between the two.
C6_CalledAgain ==
  /\ ncalls = 3
  /\ kept.dialect = "EB2"
  /\ last.dialect = "EB2"
  /\ kept.text = <<1, 11>>
  /\ last.text = <<1, 11>>
  /\ Len(last.result) = 1
  /\ Len(last.result[1].items) = 2

\* The text of a chained continuation: ", Attachment M - d".
LinkText(link) ==
  <<",", " ", "Attachment", " ", link.num, " ", link.dash, " ">> \o link.desc

RECURSIVE LinksText(_)
LinksText(links) ==
  IF links = <<>> THEN <<>> ELSE LinkText(Head(links)) \o LinksText(Tail(links))

\* The text of a plain enumeration with chained continuations:
\* "(N) d0, Attachment M1 - d1, ..., Attachment Mk - dk".
ChainedText(c) == <<"(", c.num, ")", " ">> \o c.d0 \o LinksText(c.links)

\* The chained enumerations of the pool.
Chains ==
  { [num |-> "1", d0 |-> <<"Y">>,
     links |-> <<[num |-> "2", dash |-> "ndash", desc |-> <<"B">>]>>],
    [num |-> "2", d0 |-> <<"Letter">>,
     links |-> <<[num |-> "3", dash |-> "-",
                  desc |-> <<"Press", ",", " ", "available", " ", "at", ":", " ",
                             "http://", "x">>]>>] }

\* The numbers of a chained enumeration: N, M1, ..., Mk.
ChainNums(c) ==
  {ParseInt(<<c.num>>)} \cup {ParseInt(<<c.links[i].num>>) : i \in 1..Len(c.links)}

\* C11: a plain enumeration with k chained continuations, read alone, yields
\* k+1 citations, N and M1..Mk; the description of N is d0 with its period and
\* no description contains "Attachment" (extractEB1 and the extractEB2 of
\* cover-sheet/lib).
C11_ChainedCitations ==
  \A c \in Chains :
    (/\ pc = "done"
     /\ dialect \in {"EB1", "EB2"}
     /\ nread = 1
     /\ Pool[para] = ChainedText(c)) =>
      /\ Len(result) = 1
      /\ Len(result[1].items) = Len(c.links) + 1
      /\ {item.num : item \in ItemsOf(result)} = ChainNums(c)
      /\ \A item \in ItemsOf(result) :
           /\ item.num = ParseInt(<<c.num>>) => item.desc = c.d0 \o <<".">>
           /\ \A i \in 1..Len(item.desc) : ToUpper(item.desc[i]) # "ATTACHMENT"

\* The fragment of a chained enumeration that cites the number: d0 or some di.
FragmentOf(c, num) ==
  IF num = ParseInt(<<c.num>>) THEN c.d0
  ELSE c.links[CHOOSE i \in 1..Len(c.links) : ParseInt(<<c.links[i].num>>) = num].desc

\* C19: of a chained enumeration read alone by extractEB1, a description of
\* the result carries a URL exactly when the fragment of its own citation
\* does: a URL written in a chained fragment stays out of the description of
\* the main citation.
C19_UrlInItsOwnFragment ==
  \A c \in Chains :
    (/\ pc = "done"
     /\ dialect = "EB1"
     /\ nread = 1
     /\ Pool[para] = ChainedText(c)) =>
      \A item \in ItemsOf(result) :
        item.num \in ChainNums(c) =>
          (IncludesHttp(item.desc) <=> IncludesHttp(FragmentOf(c, item.num)))

\* The request has no upload, or an upload whose name does not end in .docx.
BadUpload ==
  \/ Falsy(request.file)
  \/ request.file.kind = "File" /\ ~EndsWith(request.file.name, DotDocx)

\* The request has a well-named upload whose document has no text.
EmptyDocument ==
  /\ request.file.kind = "File"
  /\ EndsWith(request.file.name, DotDocx)
  /\ request.file.doc.docx
  /\ request.file.doc.value = <<>>

\* C12: a request without an upload, with an upload whose name does not end
\* in .docx, or with a document whose text is empty, when nothing was thrown,
\* is answered with one 400 response without attachments, and no extractor
\* was called.
C12_InputErrorsRejected ==
  (handlerAt = "done" /\ logged = <<>> /\ (BadUpload \/ EmptyDocument)) =>
    /\ Len(responses) = 1
    /\ responses[1].status = 400
    /\ "attachments" \notin DOMAIN responses[1].body
    /\ invoked = <<>>

\* C13: once POST returned after a throw, it returned one response, with
\* status 500, an error and no attachments; and no response ever carries both
\* success and an error.
C13_OneServerFault ==
  /\ (handlerAt = "done" /\ logged # <<>>) =>
       /\ Len(responses) = 1
       /\ responses[1].status = 500
       /\ "error" \in DOMAIN responses[1].body
       /\ "attachments" \notin DOMAIN responses[1].body
  /\ \A i \in 1..Len(responses) :
       ~({"success", "error"} \subseteq DOMAIN responses[i].body)

\* The extractor threw on the text of a valid upload, and POST returned.
C13_ExtractorThrew ==
  /\ handlerAt = "done"
  /\ logged = <<"extractor">>
  /\ Len(invoked) = 1
  /\ invoked[1].text # <<>>

\* The paragraphs of the pool that are prose: no recognizer matches them.
Prose == {<<"Narrative", " ", "about", " ", "my", " ", "Letter", ".">>}

\* A plain enumeration whose chained fragment has no description:
\* "(1) Y, Attachment 2 -".
EmptyFragmentParagraph == ChainedText([num |-> "1", d0 |-> <<"Y">>, links |-> <<>>])
                            \o <<",", " ", "Attachment", " ", "2", " ", "-">>

\* C14: extractEB1 and extractEB2 skip what they cannot read: reading a
\* paragraph of prose changes nothing of what was gathered, and of a chained
\* fragment without a description, read alone, only the main citation is
\* returned.
C14_MalformedSkipped ==
  [][/\ (nread' = nread + 1 /\ dialect \in {"EB1", "EB2"} /\ Pool[para'] \in Prose) =>
          UNCHANGED <<eb1Vars, eb2Vars>>
     /\ (/\ pc = "loop"
         /\ pc' = "done"
         /\ dialect \in {"EB1", "EB2"}
         /\ nread = 1
         /\ Pool[para] = EmptyFragmentParagraph) =>
          {item.num : item \in ItemsOf(result')} = {1}]_vars

RECURSIVE FirstEncounter(_, _)
\* The normalized names of the headings of a text for extractEB1, each once,
\* in the order of their first occurrence.
FirstEncounter(text, seen) ==
  IF text = <<>> THEN seen
  ELSE LET p == EB1_parsed[Head(text)]
       IN  IF p.header /\ \A i \in 1..Len(seen) : seen[i] # p.title
             THEN FirstEncounter(Tail(text), Append(seen, p.title))
             ELSE FirstEncounter(Tail(text), seen)

\* The section keys of a result, in its order.
NamesOf(res) == [i \in 1..Len(res) |-> res[i].name]

RECURSIVE IsSubsequence(_, _)
\* The elements of `sub` occur in `full` in the same order.
IsSubsequence(sub, full) ==
  IF sub = <<>> THEN TRUE
  ELSE IF full = <<>> THEN FALSE
  ELSE IF Head(sub) = Head(full) THEN IsSubsequence(Tail(sub), Tail(full))
  ELSE IsSubsequence(sub, Tail(full))

\* C15: the keys of a result of extractEB1 are '' first, when it has items,
\* and then the sections that have items, in the order in which their
\* headings occur first in the text.
C15_FirstEncounterOrder ==
  last.dialect = "EB1" =>
    /\ IsSubsequence(NamesOf(last.result), <<<<>>>> \o FirstEncounter(last.text, <<>>))
    /\ \A i \in 1..Len(last.result) : last.result[i].items # <<>>
    /\ \A k \in 1..Len(last.text) :
         LET p == EB1_parsed[last.text[k]]
         IN  (~p.blank /\ ~p.header /\ p.pairs # <<>>) =>
               \E i \in 1..Len(last.result) :
                 last.result[i].name =
                   IF \E j \in 1..(k - 1) : EB1_parsed[last.text[j]].header
                     THEN EB1_parsed[last.text[
                            Max({j \in 1..(k - 1) : EB1_parsed[last.text[j]].header})]].title
                     ELSE <<>>

\* extractEB1 read a text in which the heading of the first section recurs
\* after another section, and returned '' and the two sections.
C15_HeadingRecurs ==
  /\ last.dialect = "EB1"
  /\ last.text = <<10, 6, 8, 5, 9, 6, 13>>
  /\ NamesOf(last.result) =
       << <<>>, <<"EVIDENCE", " ", "OF", " ", "ROLE">>, <<"EVIDENCE", " ", "OF", " ", "AWARDS">> >>

\* The citations read while section sec was current.
CitedIn(sec) == {c \in cited : c.sec = sec}

\* C16: in a result of extractEB1 a number is listed under exactly the
\* sections under which it was cited, the pre-section bucket included, and
\* its description under a section carries a URL exactly when one of that
\* section's own citations of the number does.
C16_DedupedPerSection ==
  (pc = "done" /\ dialect = "EB1") =>
    /\ \A c \in cited : \E i \in 1..Len(result) :
         result[i].name = c.sec /\ c.num \in SectionNums(result, i)
    /\ \A i \in 1..Len(result) : \A k \in 1..Len(result[i].items) :
         LET item == result[i].items[k]
             own == {c \in CitedIn(result[i].name) : c.num = item.num}
         IN  /\ own # {}
             /\ IncludesHttp(item.desc) <=> \E c \in own : c.url

\* extractEB1 returned; a number was cited without a URL under one section
\* and with a URL under another, and the result lists it under both.
C16_CitedUnderTwoSections ==
  /\ pc = "done"
  /\ dialect = "EB1"
  /\ \E a, b \in cited :
       /\ a.num = b.num /\ a.sec # b.sec /\ a.sec # <<>> /\ b.sec # <<>>
       /\ a.url /\ ~b.url
       /\ \E i, j \in 1..Len(result) :
            /\ i # j
            /\ a.num \in SectionNums(result, i)
            /\ a.num \in SectionNums(result, j)

RECURSIVE EB1_candidatesOf(_, _, _)
\* The descriptions extractEB1's recognizers read for number num under
\* section sec of a text, in the order of the text; cur is the section the
\* text starts in.
EB1_candidatesOf(text, cur, want) ==
  IF text = <<>> THEN <<>>
  ELSE LET p == EB1_parsed[Head(text)]
           found == EB1_candidates(p)
           here == IF cur = want.sec
                     THEN [i \in {j \in 1..Len(found) : found[j].num = want.num} |->
                             found[i].desc]
                     ELSE <<>>
       IN  FunValues(here, DOMAIN here)
             \o EB1_candidatesOf(Tail(text), IF p.header THEN p.title ELSE cur, want)

RECURSIVE EB2_candidatesOf(_, _)
\* The descriptions extractEB2's recognizers read for number num anywhere in
\* a text, in the order of the text.
EB2_candidatesOf(text, num) ==
  IF text = <<>> THEN <<>>
  ELSE LET found == EB2_candidates(EB2_parsed[Head(text)])
           here == [i \in {j \in 1..Len(found) : found[j].num = num} |-> found[i].desc]
       IN  FunValues(here, DOMAIN here) \o EB2_candidatesOf(Tail(text), num)

\* The first of the longest descriptions of a non-empty list.
FirstLongest(descs) ==
  descs[Min({i \in 1..Len(descs) :
               \A j \in 1..Len(descs) : CharLen(descs[i]) >= CharLen(descs[j])})]

\* The candidates of a list all carry a URL, or none does.
UniformUrl(descs) ==
  \A i, j \in 1..Len(descs) : IncludesHttp(descs[i]) = IncludesHttp(descs[j])

\* The description kept is one of the candidates, and the first of the longest
\* when all of them carry a URL or none does.
Resolved(desc, descs) ==
  /\ \E i \in 1..Len(descs) : descs[i] = desc
  /\ UniformUrl(descs) => desc = FirstLongest(descs)

\* C17: every description of a result is one of the candidates read for its
\* number (in extractEB1, under its section), and when these all carry a URL
\* or all carry none it is the longest of them, the first among the longest.
C17_LongestKept ==
  /\ last.dialect = "EB1" =>
       \A i \in 1..Len(last.result) : \A k \in 1..Len(last.result[i].items) :
         Resolved(last.result[i].items[k].desc,
                  EB1_candidatesOf(last.text, <<>>,
                    [sec |-> last.result[i].name, num |-> last.result[i].items[k].num]))
  /\ last.dialect = "EB2" =>
       \A i \in 1..Len(last.result) : \A k \in 1..Len(last.result[i].items) :
         Resolved(last.result[i].items[k].desc,
                  EB2_candidatesOf(last.text, last.result[i].items[k].num))

\* The elements of a sequence.
Range(seq) == {seq[i] : i \in 1..Len(seq)}

\* The items gathered under the sections of groups or bySec.
Gathered(obj) == UNION {Range(obj[i].items) : i \in 1..Len(obj)}

\* The items held in the pre-section buffer.
Buffered(held) == {held[n] : n \in DOMAIN held}

\* What each recognizer of extractEB1 reads in a paragraph, in the order in
\* which they are tried: line-leading, embedded parenthetical, enumeration.
EB1_recognizers(trimmed) ==
  << EB1_attachmentLine(trimmed),
     EB1_seeAll(trimmed, MatchAll(EB1_SEE_ATTACHMENT_RE, trimmed, TRUE)),
     EB1_enumPairs(trimmed) >>

RECURSIVE EB1_recognizeAll(_)
EB1_recognizeAll(paragraphs) ==
  IF paragraphs = <<>> THEN <<>>
  ELSE <<EB1_recognizers(Trim(Head(paragraphs)))>> \o EB1_recognizeAll(Tail(paragraphs))

\* What the recognizers of extractEB1 read in each paragraph of the pool.
EB1_recognized == EB1_recognizeAll(Pool)

\* What each recognizer of extractEB2 reads in a paragraph, in the order in
\* which they are tried: embedded parenthetical, enumeration.
EB2_recognizers(p) ==
  << p.see,
     IF ~p.enum.ok THEN <<>> ELSE p.enum.chained \o <<p.enum.main, p.enum.plain>> >>

\* The added items all come from one recognizer, and no recognizer tried
\* before that one yields an item that is not skipped.
FromOneRecognizer(added, yields, Skipped(_)) ==
  \E i \in 1..Len(yields) :
    /\ added \subseteq Range(yields[i])
    /\ \A j \in 1..(i - 1) : \A item \in Range(yields[j]) : Skipped(item)

\* C18: the citations a paragraph adds come from one recognizer, the first in
\* the fixed order that yields a citation (extractEB1 and the extractEB2 of
\* cover-sheet/lib).
C18_OneRecognizer ==
  [][(nread' = nread + 1) =>
       /\ (dialect = "EB1" /\ ~EB1_parsed[para'].header) =>
            LET Never(item) == FALSE
            IN  FromOneRecognizer(Gathered(groups') \ Gathered(groups),
                                  EB1_recognized[para'], Never)
       /\ (dialect = "EB2" /\ ~EB2_parsed[para'].header) =>
            LET Seen(item) == EB2_skip(EB2_ctx, item.num)
            IN  FromOneRecognizer(
                  (Gathered(bySec') \cup Buffered(preSectionItems'))
                    \ (Gathered(bySec) \cup Buffered(preSectionItems)),
                  EB2_recognizers(EB2_parsed[para']), Seen)]_vars

\* A paragraph with a plain enumeration and an embedded parenthetical was
\* read alone, and the result holds the citation of the parenthetical only.
C18_TwoRecognizersMatch ==
  /\ pc = "done"
  /\ dialect \in {"EB1", "EB2"}
  /\ nread = 1
  /\ Pool[para] = <<"(", "1", ")", " ", "Y", " ", "(", "See", " ", "Attachment", " ", "2",
                    " ", "-", " ", "B", ")">>
  /\ ItemsOf(result) = {[num |-> 2, desc |-> <<"B", ".">>]}

\* The headings of the pool that are single-spaced and have neither a page
\* number nor a pronoun among their title words.
PlainHeadings ==
  { <<"I", ".", " ", "Introduction">>, <<"I", "I", ".", " ", "Ability">>,
    <<"I", "I", "I", ".", " ", "Merits">> }

\* C20: when either extractEB2 has read a plain heading, the current section
\* is the heading as written, with its case and its Roman numeral, and it is
\* a key of bySec: "I. Introduction" gives the section "I. Introduction".
C20_HeadingAsWritten ==
  (dialect \in {"EB2", "CS"} /\ nread >= 1 /\ Pool[para] \in PlainHeadings) =>
    /\ currentSec = Pool[para]
    /\ Pool[para] \in KeysOf(bySec)

\* The citations with a description that extractEB2's recognizers read in
\* the paragraphs of a text: main numbers and chained fragments.
EB2_readable(text) ==
  UNION {{item \in Range(EB2_candidates(EB2_parsed[text[k]])) :
            item.desc \notin {<<>>, <<".">>}} : k \in 1..Len(text)}

\* C21: every number that a recognizer of extractEB2 reads in a paragraph of
\* the text, a chained number included, is listed in some section of the
\* result.
C21_NoNumberLost ==
  last.dialect = "EB2" =>
    \A item \in EB2_readable(last.text) : Listed(last.result, item.num)

\* C22: in the upload page the error state and the result state are never
\* both non-null: no error message is displayed together with the results
\* of an earlier extraction.
C22_ErrorOrResult == ~(shownError # NoError /\ shownResult # NoResult)

\* The current selection of the upload page.
Selection == [file |-> selectedFile, type |-> extractorType]

\* C23: in the upload page at most one request is in flight, loading is
\* true exactly while a request is in flight, and a result that is displayed
\* was produced from the file and the case type that are selected.
C23_ResultOfSelection ==
  /\ Len(fetching) <= 1
  /\ loading <=> fetching # <<>>
  /\ shownResult # NoResult => resultOf = Selection

\* Every submission sets loading back to false, when the promises of fetch
\* and of response.json() settle.
C23_LoadingEnds == loading ~> ~loading

\* At most one request is in flight, and loading is true exactly while one
\* is.
C23_OneInFlight == Len(fetching) <= 1 /\ (loading <=> fetching # <<>>)

\* The paragraphs of the pool that match the header grammar of extractEB1 and
\* are rejected by the tests of line 115, and those that match the header
\* grammar of extractEB2 and are rejected by the tests of lines 84 and 86.
RejectedEB1 ==
  {k \in DOMAIN Pool :
     /\ Test(EB1_SECTION_LINE_RE, Trim(Pool[k]), TRUE)
     /\ \/ Test(CONCLUSION_RE, Trim(Pool[k]), TRUE)
        \/ Test(EB1_TOC_LINE_RE, Trim(Pool[k]), TRUE)}
RejectedEB2 ==
  {k \in DOMAIN Pool :
     /\ Test(EB2_SECTION_RX, Trim(Pool[k]), TRUE)
     /\ \/ Test(CONCLUSION_RE, Trim(Pool[k]), TRUE)
        \/ Test(EB2_TOC_RE, Trim(Pool[k]), FALSE)}

\* The sections other than the one named are as they were.
OtherSectionsKept(before, after, name) ==
  /\ Len(after) = Len(before)
  /\ \A i \in 1..Len(before) : before[i].name # name => after[i] = before[i]

\* C24: reading a candidate header that extractEB1 or extractEB2 rejects (a
\* CONCLUSION line or a table-of-contents entry) leaves the current section
\* and the section keys as they were; the current section changes only when a
\* header is accepted, to that header; and the citations of any other
\* paragraph touch no section but the current one.
C24_RejectedLeavesSection ==
  [][(nread' = nread + 1) =>
       /\ dialect = "EB1" =>
            /\ para' \in RejectedEB1 =>
                 (currentSection' = currentSection /\ KeysOf(groups') = KeysOf(groups))
            /\ currentSection' # currentSection =>
                 (EB1_parsed[para'].header /\ currentSection' = EB1_parsed[para'].title)
            /\ ~EB1_parsed[para'].header =>
                 OtherSectionsKept(groups, groups', currentSection)
       /\ dialect = "EB2" =>
            /\ para' \in RejectedEB2 =>
                 (currentSec' = currentSec /\ KeysOf(bySec') = KeysOf(bySec))
            /\ currentSec' # currentSec =>
                 (EB2_parsed[para'].header /\ currentSec' = EB2_parsed[para'].name)
            /\ ~EB2_parsed[para'].header =>
                 OtherSectionsKept(bySec, bySec', currentSec)]_vars

\* extractEB1 read a rejected candidate header, and extractEB2 a
\* table-of-contents entry, under a section that lists a citation.
C24_RejectedUnderASection ==
  \/ /\ dialect = "EB1" /\ para \in RejectedEB1 /\ currentSection # <<>>
     /\ \E i \in 1..Len(groups) :
          groups[i].name = currentSection /\ groups[i].items # <<>>
  \/ /\ dialect = "EB2" /\ para \in RejectedEB2 /\ EB2_parsed[para].toc
     /\ currentSec # <<>>
     /\ \E i \in 1..Len(bySec) : bySec[i].name = currentSec /\ bySec[i].items # <<>>

====
